---- MODULE Spec2Model ----
(***************************************************************************)
(* Model of UEnhancedTimerManagerSubsystem (EnhancedTimerManager plugin):  *)
(* the timer store, the creation / control / bulk API with its game-thread *)
(* marshalling, and the Tick pipeline (snapshot, pre-mark, mutable pass,   *)
(* fire pass with re-entrant callbacks, cleanup).                          *)
(*                                                                         *)
(* Time is fixed-point: one unit is 0.0001 s, so KINDA_SMALL_NUMBER        *)
(* (1.e-4) is 1 unit, 0.5 s is 5000 units and 2 s is 20000 units.          *)
(* Time-dilation factors are fixed-point too, in halves (ScaleDen).        *)
(***************************************************************************)
EXTENDS Integers, Sequences, FiniteSets, TLC

VARIABLES
    Timers,          \* TMap<uint64, FEnhancedTimerData>: live id -> record
    FiredThisTick,   \* TArray<uint64>: ids marked due, not yet handed to the fire pass
    ToRemove,        \* TArray<uint64>: ids queued for removal at Cleanup
    ToUnpause,       \* TArray<uint64>: ids queued for a deferred unpause
    NextId,          \* uint64 id generator
    ReusableToFire,  \* the part of ExecuteFired's buffer its loop has not visited yet
    pc,              \* position of the game thread: idle, callback, ret; statement by
                     \* statement also PauseTimer, UnpauseTimer, postfire, fire
    cur,             \* id whose delegate is executing (0: none)
    TaskQueue,       \* AsyncTask(ENamedThreads::GameThread, ...) lambdas not yet run
    Returned,        \* Id of the handle the last creation call returned
    MapLock,         \* FRWLock MapLock: "free", "read" or "write"
    Issued,          \* ids given to created timers since the process started
    Initialized,     \* the subsystem is between Initialize and Deinitialize
    Result,          \* the last query made and the value it returned
    lastThread,      \* the thread that took the last step
    AsyncCalls,      \* SetEnhancedTimerAsync calls made so far
    Completions,     \* the OnComplete invocations so far, in order
    hist,            \* history of each live record (effective time fed, fires)
    tk               \* history of the Tick call in progress

vars == <<Timers, FiredThisTick, ToRemove, ToUnpause, NextId, ReusableToFire,
          pc, cur, TaskQueue, Returned, Result, Issued, Initialized,
          MapLock, lastThread, AsyncCalls, Completions, hist, tk>>

-----------------------------------------------------------------------------
(* Bounds of the model. *)

\* timers created in one run
MaxCreate == 2
\* deferred game-thread tasks pending at once
MaxQueue == 1
\* effective time fed to one timer, in units (2 s)
MaxAcc == 20000
\* the same, where a single timer is followed (4 s)
MaxAccOne == 40000
\* delegate executions of one timer
MaxFires == 3
\* SetEnhancedTimerAsync calls in one run
MaxAsync == 2
\* width of the id counter in bits (uint64 in the source)
IdBits == 4

\* widest variation, in units, whose random draws are all followed
MaxDraw == 3

IdModulus == 2 ^ IdBits

-----------------------------------------------------------------------------
(* Constants of the program and of the host. *)

\* KINDA_SMALL_NUMBER, 1.e-4 s
\* -1.f, what the float queries return for a timer that is not there.
MinusOne == 0 - 10000

KINDA_SMALL_NUMBER == 1
\* denominator of the fixed-point dilation factors
ScaleDen == 2
\* UE_SMALL_NUMBER (1.e-8) as a dilation factor: below the resolution of the model
UE_SMALL_NUMBER == 0

GameThread == "GameThread"
Worker == "Worker"
Threads == {GameThread, Worker}

IgnoreTimeDilation == "IgnoreTimeDilation"
GlobalTimeDilation == "GlobalTimeDilation"
ActorTimeDilation == "ActorTimeDilation"

PhaseInitialDelay == "InitialDelay"
PhaseRunning == "Running"

nullptr == "nullptr"
SomeActor == "Actor"

-----------------------------------------------------------------------------
(* Inputs the environment may pass. *)

\* FMath::FRandRange(-V, V): every value of a short interval, the ends and
\* the middle of a long one
RandDraws(V) == IF V <= MaxDraw THEN (0 - V) .. V ELSE {0 - V, 0, V}

ArgsOver(Durs, Dils, Pauses, Loops, Delays, Variations) ==
    { [Duration |-> d, DilationMode |-> m[1], DilationActor |-> m[2],
       bAffectedByGamePause |-> ap, bLoop |-> lp,
       DelayToStartCountingDown |-> dl, DelayToStartCountingDownVariation |-> dv] :
        d \in Durs, m \in Dils, ap \in Pauses, lp \in Loops,
        dl \in Delays, dv \in Variations }

-----------------------------------------------------------------------------
(* Small helpers. *)

Max(a, b) == IF a >= b THEN a ELSE b

Perms(S) ==
    { s \in [1 .. Cardinality(S) -> S] : \A i, j \in DOMAIN s : i # j => s[i] # s[j] }

Range(s) == { s[i] : i \in DOMAIN s }

RemoveKeys(f, K) == [ i \in DOMAIN f \ K |-> f[i] ]

-----------------------------------------------------------------------------
(* FEnhancedTimerData and its inline members. *)

\* The effective delta of one record for one frame. World is never null where
\* Tick calls this; env carries the host's dilation values of the frame.
\* Faulty variant: without its actor, a timer under actor dilation stands
\* still.
GetEffectiveDelta_NoFallback(T, WorldDelta, env) ==
    CASE T.DilationMode = GlobalTimeDilation ->
            (WorldDelta * env.GlobalScale) \div ScaleDen
      [] T.DilationMode = ActorTimeDilation ->
            IF T.DilationActor # nullptr /\ env.ActorValid
            THEN (WorldDelta * Max(UE_SMALL_NUMBER, env.ActorScale)) \div ScaleDen
            ELSE 0
      [] OTHER -> WorldDelta

\* Faulty variant: the dilation mode ignored.
GetEffectiveDelta_NoDilation(T, WorldDelta, env) == WorldDelta

GetEffectiveDelta(T, WorldDelta, env) ==
    CASE T.DilationMode = GlobalTimeDilation ->
            (WorldDelta * env.GlobalScale) \div ScaleDen
      [] T.DilationMode = ActorTimeDilation ->
            IF T.DilationActor # nullptr /\ env.ActorValid
            THEN (WorldDelta * Max(UE_SMALL_NUMBER, env.ActorScale)) \div ScaleDen
            ELSE WorldDelta
      [] OTHER -> WorldDelta

Advance(T, EffDelta) == [T EXCEPT !.PhaseElapsed = @ + EffDelta]

\* The condition under which TryTransitFromDelay transits (and returns true).
CanTransitFromDelay(T) ==
    T.Phase = PhaseInitialDelay /\ T.PhaseElapsed + KINDA_SMALL_NUMBER >= T.InitialDelay

\* Faulty variant: the transition keeps the time of the delay phase.
TryTransitFromDelay_NoReset(T) ==
    IF CanTransitFromDelay(T)
    THEN [T EXCEPT !.Phase = PhaseRunning]
    ELSE T

\* The record TryTransitFromDelay leaves behind.
TryTransitFromDelay(T) ==
    IF CanTransitFromDelay(T)
    THEN [T EXCEPT !.Phase = PhaseRunning, !.PhaseElapsed = 0]
    ELSE T

\* Faulty variant: the comparison made strict and without the tolerance.
ShouldFire_Strict(T) ==
    T.Phase = PhaseRunning /\ T.PhaseElapsed > T.Duration

ShouldFire(T) ==
    T.Phase = PhaseRunning /\ T.PhaseElapsed + KINDA_SMALL_NUMBER >= T.Duration

-----------------------------------------------------------------------------
(* Store helpers. *)

\* Faulty variant: the counter wraps to 0.
AllocateId_NoWrapProtection == [Out |-> NextId, Next |-> (NextId + 1) % IdModulus]

AllocateId == [Out |-> NextId,
               Next |-> IF (NextId + 1) % IdModulus = 0 THEN 1 ELSE (NextId + 1) % IdModulus]

GetData(Id) == Id \in DOMAIN Timers

FindMutable(Id) == Id \in DOMAIN Timers

IsTimerValid(HandleId) == HandleId # 0 /\ HandleId \in DOMAIN Timers

\* TMap::Add: inserts, or replaces the value of a key already present.
MapAdd(M, Id, Data) == [ i \in DOMAIN M \cup {Id} |-> IF i = Id THEN Data ELSE M[i] ]

\* Faulty variant: the draw added with its sign.
InitialDelayOf_SignedDraw(a, Rand) ==
    IF a.DelayToStartCountingDown > 0 \/ a.DelayToStartCountingDownVariation > 0
    THEN Max(0, a.DelayToStartCountingDown + Rand)
    ELSE 0

\* The initial delay SetEnhancedTimer computes from its arguments and a draw.
InitialDelayOf(a, Rand) ==
    IF a.DelayToStartCountingDown > 0 \/ a.DelayToStartCountingDownVariation > 0
    THEN Max(0, a.DelayToStartCountingDown + Max(0, Rand))
    ELSE 0

\* The record SetEnhancedTimer builds.
NewTimerData(Id, a, Rand) ==
    LET Delay == InitialDelayOf(a, Rand) IN
    [ Id                   |-> Id,
      Duration             |-> Max(0, a.Duration),
      PhaseElapsed         |-> 0,
      InitialDelay         |-> Delay,
      Phase                |-> IF Delay > 0 THEN PhaseInitialDelay ELSE PhaseRunning,
      bLoop                |-> a.bLoop,
      bPaused              |-> FALSE,
      bAffectedByGamePause |-> a.bAffectedByGamePause,
      DilationMode         |-> a.DilationMode,
      DilationActor        |-> a.DilationActor,
      bNextTick            |-> FALSE ]

\* Faulty variant: bAffectedByGamePause left at the default of the struct.
NewNextTickData_PauseDefault(Id) ==
    [ Id                   |-> Id,
      Duration             |-> 0,
      PhaseElapsed         |-> 0,
      InitialDelay         |-> 0,
      Phase                |-> PhaseRunning,
      bLoop                |-> FALSE,
      bPaused              |-> FALSE,
      bAffectedByGamePause |-> FALSE,
      DilationMode         |-> IgnoreTimeDilation,
      DilationActor        |-> nullptr,
      bNextTick            |-> TRUE ]

\* The record SetEnhancedTimerExecutedInNextTick builds.
NewNextTickData(Id) ==
    [ Id                   |-> Id,
      Duration             |-> 0,
      PhaseElapsed         |-> 0,
      InitialDelay         |-> 0,
      Phase                |-> PhaseRunning,
      bLoop                |-> FALSE,
      bPaused              |-> FALSE,
      bAffectedByGamePause |-> TRUE,
      DilationMode         |-> IgnoreTimeDilation,
      DilationActor        |-> nullptr,
      bNextTick            |-> TRUE ]

-----------------------------------------------------------------------------
(* History kept beside the program state, for stating properties. *)

EmptyMap == [ i \in {} |-> 0 ]

\* No query made yet.
NoResult == [seq |-> 0, query |-> "none", Id |-> 0, Owner |-> TRUE,
             b |-> FALSE, f |-> 0, e |-> IgnoreTimeDilation]

\* Per live record: gAcc, the sum of the effective deltas of the frames that
\* were not frozen for it (for a record never frozen, of all its frames);
\* gMark, the value of gAcc when PhaseElapsed was last reset; gFires, the
\* executions of its delegate; gLost, the phase time beyond Duration that its
\* re-arms discarded; gPaused, whether it was ever explicitly paused or
\* frozen for a frame by the host's pause.
NewHist == [gAcc |-> 0, gMark |-> 0, gFires |-> 0, gLost |-> 0, gPaused |-> FALSE]

\* Per Tick call: its inputs, the store at entry, the ids marked due in the
\* order the store was iterated, and the delegates executed, in order.
NoTick ==
    [ active |-> FALSE, World |-> FALSE, DeltaTime |-> 0, bPausedNow |-> FALSE,
      GlobalScale |-> ScaleDen, ActorScale |-> ScaleDen, ActorValid |-> FALSE,
      order |-> <<>>, pre |-> EmptyMap, preHist |-> EmptyMap, log |-> <<>> ]

-----------------------------------------------------------------------------
(* Initial state: the subsystem after Initialize. *)

Init ==
    /\ Timers = EmptyMap
    /\ FiredThisTick = <<>>
    /\ ToRemove = <<>>
    /\ ToUnpause = <<>>
    /\ NextId = 1
    /\ ReusableToFire = <<>>
    /\ pc = "idle"
    /\ cur = 0
    /\ TaskQueue = <<>>
    /\ Returned = 0
    /\ Result = NoResult
    /\ Issued = {}
    /\ Initialized = TRUE
    /\ MapLock = "free"
    /\ lastThread = GameThread
    /\ AsyncCalls = 0
    /\ Completions = <<>>
    /\ hist = EmptyMap
    /\ tk = NoTick

-----------------------------------------------------------------------------
(* Thread marshalling. *)

NoArgs == [Duration |-> 0, DilationMode |-> IgnoreTimeDilation, DilationActor |-> nullptr,
           bAffectedByGamePause |-> FALSE, bLoop |-> FALSE,
           DelayToStartCountingDown |-> 0, DelayToStartCountingDownVariation |-> 0]

\* A deferred lambda: the call it repeats, with its captures. Complete is the
\* number of the SetEnhancedTimerAsync call whose OnComplete it holds (0: none).
Task(op, Id, a) == [op |-> op, Id |-> Id, arg |-> a, Complete |-> 0]

AsyncCreateTask(a, n) == [op |-> "SetEnhancedTimerAsync", Id |-> 0, arg |-> a, Complete |-> n]

IsCreate(t) ==
    t.op \in {"SetEnhancedTimer", "SetEnhancedTimerExecutedInNextTick",
              "SetEnhancedTimer_BP", "SetEnhancedTimerExecutedInNextTick_BP"}

PendingCreates ==
    Cardinality({ i \in DOMAIN TaskQueue :
                    IsCreate(TaskQueue[i]) \/ TaskQueue[i].op = "SetEnhancedTimerAsync" })

\* FWriteScopeLock / FReadScopeLock get the lock: a writer when nobody holds
\* it, a reader when no writer does. The lock is not recursive.
CanWriteLock == MapLock = "free"

CanReadLock == MapLock # "write"

\* A call can be made: by the game thread between frames or from inside a
\* delegate it is executing, where it gets the write lock only if nobody
\* holds the lock; by another thread at any moment.
Callable(thread) ==
    /\ Initialized
    /\ IF thread = GameThread THEN pc \in {"idle", "callback"} /\ CanWriteLock
       ELSE Len(TaskQueue) < MaxQueue

\* AsyncTask(ENamedThreads::GameThread, lambda)
AsyncTask(t) == TaskQueue' = Append(TaskQueue, t)

\* The state of the asynchronous creations.
Async == <<AsyncCalls, Completions>>

\* The ids given out so far and the life of the subsystem: what only a
\* creation, Initialize and Deinitialize touch.
Life == <<Issued, Initialized>>

\* What an API call never touches.
TickState == <<FiredThisTick, ToRemove, ToUnpause, ReusableToFire, pc, cur, tk>>

-----------------------------------------------------------------------------
(* Creation. *)

\* SetEnhancedTimer past its thread check.
InsertTimer(a, Rand) ==
    LET Id == AllocateId.Out IN
    /\ NextId' = AllocateId.Next
    /\ Timers' = MapAdd(Timers, Id, NewTimerData(Id, a, Rand))
    /\ hist' = MapAdd(hist, Id, NewHist)
    /\ Issued' = Issued \cup {Id}
    /\ UNCHANGED Initialized

\* SetEnhancedTimerExecutedInNextTick past its thread check.
InsertNextTick ==
    LET Id == AllocateId.Out IN
    /\ NextId' = AllocateId.Next
    /\ Timers' = MapAdd(Timers, Id, NewNextTickData(Id))
    /\ hist' = MapAdd(hist, Id, NewHist)
    /\ Issued' = Issued \cup {Id}
    /\ UNCHANGED Initialized

\* Faulty variant: no return after AsyncTask, the call goes on to insert.
SetEnhancedTimer_FallThrough(thread, a) ==
    /\ Callable(thread)
    /\ lastThread' = thread
    /\ MapLock' = "free"
    /\ \E Rand \in RandDraws(a.DelayToStartCountingDownVariation) : InsertTimer(a, Rand)
    /\ Returned' = AllocateId.Out
    /\ UNCHANGED Result
    /\ IF thread # GameThread
       THEN AsyncTask(Task("SetEnhancedTimer", 0, a))
       ELSE UNCHANGED TaskQueue
    /\ UNCHANGED <<TickState, Async>>

\* Faulty variant: off the game thread the call returns a handle with the id
\* the deferred creation is going to get.
SetEnhancedTimer_PredictedHandle(thread, a) ==
    /\ Callable(thread)
    /\ lastThread' = thread
    /\ MapLock' = "free"
    /\ IF thread # GameThread
       THEN /\ AsyncTask(Task("SetEnhancedTimer", 0, a))
            /\ Returned' = NextId + PendingCreates
            /\ UNCHANGED Result
            /\ UNCHANGED <<Timers, NextId, Life, hist>>
       ELSE /\ \E Rand \in RandDraws(a.DelayToStartCountingDownVariation) :
                   InsertTimer(a, Rand)
            /\ Returned' = AllocateId.Out
            /\ UNCHANGED Result
            /\ UNCHANGED TaskQueue
    /\ UNCHANGED <<TickState, Async>>

SetEnhancedTimer(thread, a) ==
    /\ Callable(thread)
    /\ lastThread' = thread
    /\ MapLock' = "free"
    /\ IF thread # GameThread
       THEN /\ AsyncTask(Task("SetEnhancedTimer", 0, a))
            /\ Returned' = 0
            /\ UNCHANGED Result
            /\ UNCHANGED <<Timers, NextId, Life, hist>>
       ELSE /\ \E Rand \in RandDraws(a.DelayToStartCountingDownVariation) :
                   InsertTimer(a, Rand)
            /\ Returned' = AllocateId.Out
            /\ UNCHANGED Result
            /\ UNCHANGED TaskQueue
    /\ UNCHANGED <<TickState, Async>>

SetEnhancedTimerExecutedInNextTick(thread) ==
    /\ Callable(thread)
    /\ lastThread' = thread
    /\ MapLock' = "free"
    /\ IF thread # GameThread
       THEN /\ AsyncTask(Task("SetEnhancedTimerExecutedInNextTick", 0, NoArgs))
            /\ Returned' = 0
            /\ UNCHANGED Result
            /\ UNCHANGED <<Timers, NextId, Life, hist>>
       ELSE /\ InsertNextTick
            /\ Returned' = AllocateId.Out
            /\ UNCHANGED Result
            /\ UNCHANGED TaskQueue
    /\ UNCHANGED <<TickState, Async>>

-----------------------------------------------------------------------------
(* Single-handle and bulk operations. *)

\* InvalidateTimer past its thread check.
RemoveTimer(Id) ==
    /\ Timers' = IF Id = 0 THEN Timers ELSE RemoveKeys(Timers, {Id})
    /\ hist' = IF Id = 0 THEN hist ELSE RemoveKeys(hist, {Id})
    /\ UNCHANGED <<NextId, Life>>

\* A default-constructed FEnhancedTimerData.
DefaultTimerData ==
    [ Id                   |-> 0,
      Duration             |-> 0,
      PhaseElapsed         |-> 0,
      InitialDelay         |-> 0,
      Phase                |-> PhaseRunning,
      bLoop                |-> FALSE,
      bPaused              |-> FALSE,
      bAffectedByGamePause |-> FALSE,
      DilationMode         |-> IgnoreTimeDilation,
      DilationActor        |-> nullptr,
      bNextTick            |-> FALSE ]

\* Faulty variant: the record looked up with FindOrAdd, a missing id gets a
\* default record.
SetPaused_FindOrAdd(Id, b) ==
    /\ Timers' = IF FindMutable(Id) THEN [Timers EXCEPT ![Id].bPaused = b]
                 ELSE MapAdd(Timers, Id, [DefaultTimerData EXCEPT !.bPaused = b])
    /\ hist' = IF FindMutable(Id)
               THEN (IF b THEN [hist EXCEPT ![Id].gPaused = TRUE] ELSE hist)
               ELSE MapAdd(hist, Id, NewHist)
    /\ UNCHANGED <<NextId, Life>>

\* Faulty variant: pausing also puts the clock of the record back to 0.
SetPaused_ResetClock(Id, b) ==
    /\ Timers' = IF FindMutable(Id)
                 THEN [Timers EXCEPT ![Id].bPaused = b,
                                     ![Id].PhaseElapsed = IF b THEN 0 ELSE @]
                 ELSE Timers
    /\ hist' = IF FindMutable(Id) /\ b THEN [hist EXCEPT ![Id].gPaused = TRUE] ELSE hist
    /\ UNCHANGED <<NextId, Life>>

\* PauseTimer / UnpauseTimer past their thread check.
SetPaused(Id, b) ==
    /\ Timers' = IF FindMutable(Id) THEN [Timers EXCEPT ![Id].bPaused = b] ELSE Timers
    /\ hist' = IF FindMutable(Id) /\ b THEN [hist EXCEPT ![Id].gPaused = TRUE] ELSE hist
    /\ UNCHANGED <<NextId, Life>>

\* InvalidateAllTimers past its thread check.
EmptyTimers ==
    /\ Timers' = EmptyMap
    /\ hist' = EmptyMap
    /\ UNCHANGED <<NextId, Life>>

\* Faulty variant: the next-tick records left as they are.
SetAllPaused_NotNextTick(b) ==
    /\ Timers' = [ i \in DOMAIN Timers |->
                     IF Timers[i].bNextTick THEN Timers[i]
                     ELSE [Timers[i] EXCEPT !.bPaused = b] ]
    /\ hist' = IF b THEN [ i \in DOMAIN hist |-> [hist[i] EXCEPT !.gPaused = TRUE] ] ELSE hist
    /\ UNCHANGED <<NextId, Life>>

\* PauseAllTimers / UnpauseAllTimers past their thread check.
SetAllPaused(b) ==
    /\ Timers' = [ i \in DOMAIN Timers |-> [Timers[i] EXCEPT !.bPaused = b] ]
    /\ hist' = IF b THEN [ i \in DOMAIN hist |-> [hist[i] EXCEPT !.gPaused = TRUE] ] ELSE hist
    /\ UNCHANGED <<NextId, Life>>

\* Faulty variant: no thread test, the body runs inline on any thread.
Marshalled_Inline(thread, t, Body) ==
    /\ Callable(thread)
    /\ lastThread' = thread
    /\ MapLock' = "free"
    /\ Body
    /\ UNCHANGED <<TaskQueue, Returned, Result, TickState, Async>>

\* The shape shared by the void API calls: deferred off the game thread,
\* executed inline on it.
Marshalled(thread, t, Body) ==
    /\ Callable(thread)
    /\ lastThread' = thread
    /\ MapLock' = "free"
    /\ IF thread # GameThread
       THEN AsyncTask(t) /\ UNCHANGED <<Timers, NextId, Life, hist>>
       ELSE Body /\ UNCHANGED TaskQueue
    /\ UNCHANGED <<Returned, Result, TickState, Async>>

InvalidateTimer(thread, Id) == Marshalled(thread, Task("InvalidateTimer", Id, NoArgs), RemoveTimer(Id))

PauseTimer(thread, Id) == Marshalled(thread, Task("PauseTimer", Id, NoArgs), SetPaused(Id, TRUE))

UnpauseTimer(thread, Id) == Marshalled(thread, Task("UnpauseTimer", Id, NoArgs), SetPaused(Id, FALSE))

InvalidateAllTimers(thread) == Marshalled(thread, Task("InvalidateAllTimers", 0, NoArgs), EmptyTimers)

PauseAllTimers(thread) == Marshalled(thread, Task("PauseAllTimers", 0, NoArgs), SetAllPaused(TRUE))

UnpauseAllTimers(thread) == Marshalled(thread, Task("UnpauseAllTimers", 0, NoArgs), SetAllPaused(FALSE))

\* OnComplete(H) of the n-th asynchronous creation (called by caller), run by
\* thread with the handle of id HandleId while the store is Store.
OnComplete(n, HandleId, Store, thread, caller) ==
    Completions' = Append(Completions,
                          [n |-> n, Id |-> HandleId,
                           valid |-> HandleId # 0 /\ HandleId \in DOMAIN Store,
                           thread |-> thread, caller |-> caller])

\* Faulty variant: the thread test left out, the creation always runs inline.
SetEnhancedTimerAsync_NoThreadTest(thread, a) ==
    /\ Callable(thread)
    /\ lastThread' = thread
    /\ MapLock' = "free"
    /\ AsyncCalls' = AsyncCalls + 1
    /\ \E Rand \in RandDraws(a.DelayToStartCountingDownVariation) : InsertTimer(a, Rand)
    /\ OnComplete(AsyncCalls + 1, AllocateId.Out, Timers', thread, thread)
    /\ UNCHANGED <<TaskQueue, Returned, Result, TickState>>

\* Faulty variant: off the game thread the creation is queued as the
\* synchronous call is, without the completion.
SetEnhancedTimerAsync_NoCompletion(thread, a) ==
    /\ Callable(thread)
    /\ lastThread' = thread
    /\ MapLock' = "free"
    /\ AsyncCalls' = AsyncCalls + 1
    /\ IF thread = GameThread
       THEN /\ \E Rand \in RandDraws(a.DelayToStartCountingDownVariation) :
                   InsertTimer(a, Rand)
            /\ OnComplete(AsyncCalls + 1, AllocateId.Out, Timers', thread, thread)
            /\ UNCHANGED TaskQueue
       ELSE /\ AsyncTask(Task("SetEnhancedTimer", 0, a))
            /\ UNCHANGED <<Timers, NextId, Life, hist, Completions>>
    /\ UNCHANGED <<Returned, Result, TickState>>

\* SetEnhancedTimerAsync: inline on the game thread, OnComplete called with
\* the handle; deferred otherwise, the lambda creating and then completing.
SetEnhancedTimerAsync(thread, a) ==
    /\ Callable(thread)
    /\ lastThread' = thread
    /\ MapLock' = "free"
    /\ AsyncCalls' = AsyncCalls + 1
    /\ IF thread = GameThread
       THEN /\ \E Rand \in RandDraws(a.DelayToStartCountingDownVariation) :
                   InsertTimer(a, Rand)
            /\ OnComplete(AsyncCalls + 1, AllocateId.Out, Timers', thread, thread)
            /\ UNCHANGED TaskQueue
       ELSE /\ AsyncTask(AsyncCreateTask(a, AsyncCalls + 1))
            /\ UNCHANGED <<Timers, NextId, Life, hist, Completions>>
    /\ UNCHANGED <<Returned, Result, TickState>>

\* The game thread runs the oldest deferred lambda: the same call, now inline;
\* a creation's handle is dropped by the lambda.
RunTask ==
    /\ pc = "idle"
    /\ Initialized
    /\ CanWriteLock
    /\ TaskQueue # <<>>
    /\ lastThread' = GameThread
    /\ MapLock' = "free"
    /\ TaskQueue' = Tail(TaskQueue)
    /\ LET t == Head(TaskQueue) IN
       CASE t.op \in {"SetEnhancedTimer", "SetEnhancedTimer_BP"} ->
                \E Rand \in RandDraws(t.arg.DelayToStartCountingDownVariation) :
                    InsertTimer(t.arg, Rand)
         [] t.op = "SetEnhancedTimerAsync" ->
                \E Rand \in RandDraws(t.arg.DelayToStartCountingDownVariation) :
                    InsertTimer(t.arg, Rand)
         [] t.op \in {"SetEnhancedTimerExecutedInNextTick",
                       "SetEnhancedTimerExecutedInNextTick_BP"} -> InsertNextTick
         [] t.op = "InvalidateTimer" -> RemoveTimer(t.Id)
         [] t.op = "PauseTimer" -> SetPaused(t.Id, TRUE)
         [] t.op = "UnpauseTimer" -> SetPaused(t.Id, FALSE)
         [] t.op = "InvalidateAllTimers" -> EmptyTimers
         [] t.op = "PauseAllTimers" -> SetAllPaused(TRUE)
         [] OTHER -> SetAllPaused(FALSE)
    /\ IF Head(TaskQueue).op = "SetEnhancedTimerAsync"
       THEN OnComplete(Head(TaskQueue).Complete, AllocateId.Out, Timers', GameThread, Worker)
            /\ UNCHANGED AsyncCalls
       ELSE UNCHANGED Async
    /\ UNCHANGED <<Returned, Result, TickState>>

\* The Blueprint variants: the same calls with a dynamic delegate.
SetEnhancedTimer_BP(thread, a) ==
    /\ Callable(thread)
    /\ lastThread' = thread
    /\ MapLock' = "free"
    /\ IF thread # GameThread
       THEN /\ AsyncTask(Task("SetEnhancedTimer_BP", 0, a))
            /\ Returned' = 0
            /\ UNCHANGED <<Timers, NextId, Life, hist>>
       ELSE /\ \E Rand \in RandDraws(a.DelayToStartCountingDownVariation) :
                   InsertTimer(a, Rand)
            /\ Returned' = AllocateId.Out
            /\ UNCHANGED TaskQueue
    /\ UNCHANGED <<Result, TickState, Async>>

SetEnhancedTimerExecutedInNextTick_BP(thread) ==
    /\ Callable(thread)
    /\ lastThread' = thread
    /\ MapLock' = "free"
    /\ IF thread # GameThread
       THEN /\ AsyncTask(Task("SetEnhancedTimerExecutedInNextTick_BP", 0, NoArgs))
            /\ Returned' = 0
            /\ UNCHANGED <<Timers, NextId, Life, hist>>
       ELSE /\ InsertNextTick
            /\ Returned' = AllocateId.Out
            /\ UNCHANGED TaskQueue
    /\ UNCHANGED <<Result, TickState, Async>>

-----------------------------------------------------------------------------
(* Life of the subsystem. *)

\* Deinitialize: the store and the buffers emptied, the id counter back at 1.
Deinitialize ==
    /\ pc = "idle"
    /\ Initialized
    /\ CanWriteLock
    /\ Initialized' = FALSE
    /\ lastThread' = GameThread
    /\ MapLock' = "free"
    /\ Timers' = EmptyMap
    /\ hist' = EmptyMap
    /\ FiredThisTick' = <<>>
    /\ ToRemove' = <<>>
    /\ ToUnpause' = <<>>
    /\ ReusableToFire' = <<>>
    /\ NextId' = 1
    /\ UNCHANGED <<Issued, pc, cur, tk, TaskQueue, Returned, Result, Async>>

\* Initialize: capacity reserved, nothing else; the subsystem serves again.
Initialize ==
    /\ ~Initialized
    /\ Initialized' = TRUE
    /\ lastThread' = GameThread
    /\ MapLock' = "free"
    /\ UNCHANGED <<Timers, hist, FiredThisTick, ToRemove, ToUnpause, ReusableToFire, NextId,
                   Issued, pc, cur, tk, TaskQueue, Returned, Result, Async>>

-----------------------------------------------------------------------------
(* Queries. *)

\* The subsystem's queries read the record under the read lock, by the id of
\* the handle alone.
IsTimerPaused(Id) == IF GetData(Id) THEN Timers[Id].bPaused ELSE FALSE

IsTimerLooping(Id) == IF GetData(Id) THEN Timers[Id].bLoop ELSE FALSE

GetTimerDuration(Id) == IF GetData(Id) THEN Timers[Id].Duration ELSE MinusOne

\* Faulty variant: the remaining time not clamped at 0.
GetTimerTimeLeft_NoClamp(Id) ==
    IF ~GetData(Id) THEN MinusOne
    ELSE IF Timers[Id].Phase = PhaseInitialDelay
         THEN Timers[Id].InitialDelay - Timers[Id].PhaseElapsed
         ELSE Timers[Id].Duration - Timers[Id].PhaseElapsed

\* Faulty variant: the phase not looked at, the time left always Duration's.
GetTimerTimeLeft_DurationOnly(Id) ==
    IF ~GetData(Id) THEN MinusOne
    ELSE Max(0, Timers[Id].Duration - Timers[Id].PhaseElapsed)

GetTimerTimeLeft(Id) ==
    IF ~GetData(Id) THEN MinusOne
    ELSE IF Timers[Id].Phase = PhaseInitialDelay
         THEN Max(0, Timers[Id].InitialDelay - Timers[Id].PhaseElapsed)
         ELSE Max(0, Timers[Id].Duration - Timers[Id].PhaseElapsed)

GetTimerElapsedTime(Id) == IF GetData(Id) THEN Timers[Id].PhaseElapsed ELSE MinusOne

IsTimerAffectedByGamePause(Id) == IF GetData(Id) THEN Timers[Id].bAffectedByGamePause ELSE FALSE

GetTimerTimeDilationMode(Id) == IF GetData(Id) THEN Timers[Id].DilationMode ELSE IgnoreTimeDilation

\* FEnhancedTimerHandle's methods: the handle's id, and whether its weak
\* pointer to the owning subsystem is still valid.
\* Faulty variant: the owner not tested.
Handle_IsValid_NoOwnerTest(Id, OwnerValid) == Id # 0 /\ IsTimerValid(Id)

Handle_IsValid(Id, OwnerValid) == Id # 0 /\ OwnerValid /\ IsTimerValid(Id)

Handle_IsPaused(Id, OwnerValid) == IF OwnerValid THEN IsTimerPaused(Id) ELSE FALSE

Handle_IsLooping(Id, OwnerValid) == IF OwnerValid THEN IsTimerLooping(Id) ELSE FALSE

Handle_GetDuration(Id, OwnerValid) == IF OwnerValid THEN GetTimerDuration(Id) ELSE MinusOne

Handle_GetTimeLeft(Id, OwnerValid) == IF OwnerValid THEN GetTimerTimeLeft(Id) ELSE MinusOne

Handle_GetElapsedTime(Id, OwnerValid) == IF OwnerValid THEN GetTimerElapsedTime(Id) ELSE MinusOne

Handle_IsAffectedByGamePause(Id, OwnerValid) ==
    IF OwnerValid THEN IsTimerAffectedByGamePause(Id) ELSE FALSE

Handle_GetTimeDilationMode(Id, OwnerValid) ==
    IF OwnerValid THEN GetTimerTimeDilationMode(Id) ELSE IgnoreTimeDilation

BoolQueries == {"IsTimerValid", "IsTimerPaused", "IsTimerLooping", "IsTimerAffectedByGamePause"}
FloatQueries == {"GetTimerDuration", "GetTimerTimeLeft", "GetTimerElapsedTime"}
ModeQueries == {"GetTimerTimeDilationMode"}
BoolMethods == {"IsValid", "IsPaused", "IsLooping", "IsAffectedByGamePause"}
FloatMethods == {"GetDuration", "GetTimeLeft", "GetElapsedTime"}
ModeMethods == {"GetTimeDilationMode"}
HandleMethods == BoolMethods \cup FloatMethods \cup ModeMethods
Queries == BoolQueries \cup FloatQueries \cup ModeQueries \cup HandleMethods

\* The boolean a query returns.
BoolAnswer(q, Id, OwnerValid) ==
    CASE q = "IsTimerValid" -> IsTimerValid(Id)
      [] q = "IsTimerPaused" -> IsTimerPaused(Id)
      [] q = "IsTimerLooping" -> IsTimerLooping(Id)
      [] q = "IsTimerAffectedByGamePause" -> IsTimerAffectedByGamePause(Id)
      [] q = "IsValid" -> Handle_IsValid(Id, OwnerValid)
      [] q = "IsPaused" -> Handle_IsPaused(Id, OwnerValid)
      [] q = "IsLooping" -> Handle_IsLooping(Id, OwnerValid)
      [] q = "IsAffectedByGamePause" -> Handle_IsAffectedByGamePause(Id, OwnerValid)
      [] OTHER -> FALSE

\* The float a query returns.
FloatAnswer(q, Id, OwnerValid) ==
    CASE q = "GetTimerDuration" -> GetTimerDuration(Id)
      [] q = "GetTimerTimeLeft" -> GetTimerTimeLeft(Id)
      [] q = "GetTimerElapsedTime" -> GetTimerElapsedTime(Id)
      [] q = "GetDuration" -> Handle_GetDuration(Id, OwnerValid)
      [] q = "GetTimeLeft" -> Handle_GetTimeLeft(Id, OwnerValid)
      [] q = "GetElapsedTime" -> Handle_GetElapsedTime(Id, OwnerValid)
      [] OTHER -> 0

\* The dilation mode a query returns.
ModeAnswer(q, Id, OwnerValid) ==
    CASE q = "GetTimerTimeDilationMode" -> GetTimerTimeDilationMode(Id)
      [] q = "GetTimeDilationMode" -> Handle_GetTimeDilationMode(Id, OwnerValid)
      [] OTHER -> IgnoreTimeDilation

\* A query made by any thread at any moment (the game thread: between frames
\* or from a delegate): it returns its value and writes nothing. A subsystem
\* query is made on the live subsystem itself.
Query(thread, q, Id, OwnerValid) ==
    /\ Initialized
    /\ CanReadLock
    /\ thread = GameThread => pc \in {"idle", "callback"}
    /\ q \in HandleMethods \/ OwnerValid
    /\ lastThread' = thread
    /\ MapLock' = "free"
    /\ Result' = [seq |-> 1 - Result.seq, query |-> q, Id |-> Id, Owner |-> OwnerValid,
                  b |-> BoolAnswer(q, Id, OwnerValid),
                  f |-> FloatAnswer(q, Id, OwnerValid),
                  e |-> ModeAnswer(q, Id, OwnerValid)]
    /\ UNCHANGED <<Timers, NextId, Life, hist, TaskQueue, Returned, TickState, Async>>

-----------------------------------------------------------------------------
(* Tick. *)

\* The host values one frame can show: the pause state, and the dilation
\* factors that some live record reads (the others are left at 1).
Envs(PS, GS, AS) ==
    LET Reads(mode) == \E i \in DOMAIN Timers :
                           /\ Timers[i].DilationMode = mode
                           /\ ~Timers[i].bNextTick
                           /\ mode = ActorTimeDilation => Timers[i].DilationActor # nullptr
    IN { e \in [bPausedNow : PS, GlobalScale : GS \cup {ScaleDen},
                ActorScale : AS \cup {ScaleDen}, ActorValid : BOOLEAN] :
           /\ ~Reads(GlobalTimeDilation) => e.GlobalScale = ScaleDen
           /\ ~Reads(ActorTimeDilation) => ~e.ActorValid
           /\ ~e.ActorValid => e.ActorScale = ScaleDen }

\* Faulty variant: the explicit pause gate left out.
Gated_HostOnly(T, bPausedNow) == bPausedNow /\ ~T.bAffectedByGamePause

\* Faulty variant: the host pause gate applied whatever the record's flag.
Gated_FlagIgnored(T, bPausedNow) == T.bPaused \/ bPausedNow

\* The two pause gates at the head of both loops of Tick.
Gated(T, bPausedNow) == T.bPaused \/ (bPausedNow /\ ~T.bAffectedByGamePause)

\* Faulty variant: the host pause gate applied whatever the record's flag.
PreMarked_HostGated(T, bPausedNow) == ~T.bPaused /\ ~bPausedNow /\ T.bNextTick

\* Pre-mark loop: the record is marked due without phase math.
PreMarked(T, bPausedNow) == ~Gated(T, bPausedNow) /\ T.bNextTick

\* Mutable pass: the record the loop body leaves in the map.
MutablePass(T, DeltaTime, env) ==
    IF Gated(T, env.bPausedNow) \/ T.bNextTick THEN T
    ELSE TryTransitFromDelay(Advance(T, GetEffectiveDelta(T, DeltaTime, env)))

\* Faulty variant: no continue after the transition out of the initial delay.
MarkedDue_NoContinue(T, DeltaTime, env) ==
    /\ ~Gated(T, env.bPausedNow)
    /\ ~T.bNextTick
    /\ ShouldFire(TryTransitFromDelay(Advance(T, GetEffectiveDelta(T, DeltaTime, env))))

\* Faulty variant: the mutable pass does not skip the next-tick records.
MarkedDue_NextTickToo(T, DeltaTime, env) ==
    /\ ~Gated(T, env.bPausedNow)
    /\ LET A == Advance(T, GetEffectiveDelta(T, DeltaTime, env)) IN
       ~CanTransitFromDelay(A) /\ ShouldFire(A)

\* Mutable pass: the loop body adds the record's id to FiredThisTick.
MarkedDue(T, DeltaTime, env) ==
    /\ ~Gated(T, env.bPausedNow)
    /\ ~T.bNextTick
    /\ LET A == Advance(T, GetEffectiveDelta(T, DeltaTime, env)) IN
       ~CanTransitFromDelay(A) /\ ShouldFire(A)

\* The ids of seq that pass Test, in the order of seq.
RECURSIVE Filter(_, _)
Filter(seq, Keep) ==
    IF seq = <<>> THEN <<>>
    ELSE IF Head(seq) \in Keep THEN <<Head(seq)>> \o Filter(Tail(seq), Keep)
    ELSE Filter(Tail(seq), Keep)

\* Faulty variant: the loop does not look the id up again.
SkipGone_NoLookup(seq, T) == seq

\* ExecuteFired's loop skips the ids GetData no longer finds.
RECURSIVE SkipGone(_, _)
SkipGone(seq, T) ==
    IF seq = <<>> THEN <<>>
    ELSE IF Head(seq) \in DOMAIN T THEN seq
    ELSE SkipGone(Tail(seq), T)

\* Faulty variant: Cleanup also sweeps every record that is due.
Cleanup_SweepDue(T, Rem, Unp) ==
    IF Rem = <<>> /\ Unp = <<>> THEN T
    ELSE LET Kept == RemoveKeys(T, Range(Rem) \cup { i \in DOMAIN T : ShouldFire(T[i]) }) IN
         [ i \in DOMAIN Kept |->
             IF i \in Range(Unp) THEN [Kept[i] EXCEPT !.bPaused = FALSE] ELSE Kept[i] ]

\* Cleanup: the map it leaves.
Cleanup(T, Rem, Unp) ==
    IF Rem = <<>> /\ Unp = <<>> THEN T
    ELSE LET Kept == RemoveKeys(T, Range(Rem)) IN
         [ i \in DOMAIN Kept |->
             IF i \in Range(Unp) THEN [Kept[i] EXCEPT !.bPaused = FALSE] ELSE Kept[i] ]

\* ExecuteFired from the head of its loop, over the ids Fire still to visit,
\* up to the next delegate it executes; when none is left, Cleanup and the
\* return of Tick.
\* Faulty variant: the read lock of GetData kept while the delegate runs.
HeldAcrossExecute_ReadLock == "read"

\* What ExecuteFired holds of MapLock while it executes a delegate: nothing,
\* GetData has returned and released its read lock, FindMutable is yet to
\* take the write lock. The store is iterated under the lock only.
HeldAcrossExecute == "free"

\* Faulty variant: Cleanup removes the queued ids and keeps the queue.
ExecuteFired_KeepQueue(T, Fire, Rem, H, K) ==
    LET Rest == SkipGone(Fire, T) IN
    IF Rest = <<>>
    THEN /\ Timers' = Cleanup(T, Rem, ToUnpause)
         /\ ToRemove' = Rem
         /\ ToUnpause' = <<>>
         /\ ReusableToFire' = <<>>
         /\ pc' = "ret"
         /\ cur' = 0
         /\ hist' = RemoveKeys(H, Range(Rem))
         /\ tk' = K
    ELSE /\ Timers' = T
         /\ ToRemove' = Rem
         /\ ToUnpause' = ToUnpause
         /\ ReusableToFire' = Tail(Rest)
         /\ pc' = "callback"
         /\ cur' = Head(Rest)
         /\ hist' = [H EXCEPT ![Head(Rest)].gFires = @ + 1]
         /\ tk' = [K EXCEPT !.log = Append(@, Head(Rest))]

ExecuteFired(T, Fire, Rem, H, K) ==
    LET Rest == SkipGone(Fire, T) IN
    IF Rest = <<>>
    THEN /\ Timers' = Cleanup(T, Rem, ToUnpause)
         /\ ToRemove' = <<>>
         /\ ToUnpause' = <<>>
         /\ ReusableToFire' = <<>>
         /\ pc' = "ret"
         /\ cur' = 0
         /\ hist' = RemoveKeys(H, Range(Rem))
         /\ tk' = K
    ELSE /\ Timers' = T
         /\ ToRemove' = Rem
         /\ ToUnpause' = ToUnpause
         /\ ReusableToFire' = Tail(Rest)
         /\ pc' = "callback"
         /\ cur' = Head(Rest)
         /\ hist' = [H EXCEPT ![Head(Rest)].gFires = @ + 1]
         /\ tk' = [K EXCEPT !.log = Append(@, Head(Rest))]

\* Tick up to the first delegate it executes (or to its return).
\* Variant: one marking pass, the ids marked as the iteration meets them.
FireOrder_OnePass(order, Pre, Due) == Filter(order, Pre \cup Due)

\* Faulty variant: the mutable pass appends before the pre-mark pass does.
FireOrder_RegularFirst(order, Pre, Due) == Filter(order, Due) \o Filter(order, Pre)

\* The ids Tick appends to FiredThisTick: the pre-mark pass over the snapshot
\* appends the next-tick ones, then the mutable pass over the store the due
\* ones; order is the iteration order of both.
FireOrder(order, Pre, Due) == Filter(order, Pre) \o Filter(order, Due)

\* Faulty variant: Tick goes on without a world.
HasWorld_Unchecked(World) == TRUE

\* The test Tick starts with: GetWorld() is not null.
HasWorld(World) == World

Tick(DeltaTime, World, env, order, Horizon) ==
    /\ pc = "idle"
    /\ Initialized
    /\ CanWriteLock
    /\ lastThread' = GameThread
    /\ IF ~HasWorld(World)
       THEN /\ pc' = "ret"
            /\ tk' = [NoTick EXCEPT !.active = TRUE, !.pre = Timers, !.preHist = hist]
            /\ UNCHANGED <<Timers, FiredThisTick, ToRemove, ToUnpause, ReusableToFire,
                           cur, hist>>
       ELSE LET Eff(i) == GetEffectiveDelta(Timers[i], DeltaTime, env)
                Snapshot == Timers
                Pre == { i \in DOMAIN Snapshot : PreMarked(Snapshot[i], env.bPausedNow) }
                Due == { i \in DOMAIN Timers : MarkedDue(Timers[i], DeltaTime, env) }
                T2 == [ i \in DOMAIN Timers |-> MutablePass(Timers[i], DeltaTime, env) ]
                Fired == FiredThisTick \o FireOrder(order, Pre, Due)
                H2 == [ i \in DOMAIN hist |->
                          IF Gated(Timers[i], env.bPausedNow)
                          THEN [hist[i] EXCEPT !.gPaused = TRUE]
                          ELSE [hist[i] EXCEPT
                                  !.gAcc = @ + Eff(i),
                                  !.gMark = IF T2[i].Phase # Timers[i].Phase
                                            THEN hist[i].gAcc + Eff(i) ELSE @] ]
                K2 == [ active |-> TRUE, World |-> World, DeltaTime |-> DeltaTime,
                        bPausedNow |-> env.bPausedNow, GlobalScale |-> env.GlobalScale,
                        ActorScale |-> env.ActorScale, ActorValid |-> env.ActorValid,
                        order |-> Filter(order, Pre \cup Due), pre |-> Timers,
                        preHist |-> hist, log |-> <<>> ]
            IN /\ \A i \in DOMAIN Timers : H2[i].gAcc <= Horizon /\ H2[i].gFires < MaxFires
               /\ FiredThisTick' = <<>>
               /\ ExecuteFired(T2, Fired, ToRemove, H2, K2)
    /\ UNCHANGED <<NextId, Life, TaskQueue, Returned, Result, Async>>
    /\ MapLock' = IF pc' = "callback" THEN HeldAcrossExecute ELSE "free"

\* Faulty variant: the re-arm keeps the time beyond Duration.
PostFire_KeepExcess(T, Id, Rem) ==
    IF Id \notin DOMAIN T THEN [Timers |-> T, ToRemove |-> Rem]
    ELSE IF T[Id].bLoop
    THEN [Timers |-> [T EXCEPT ![Id].Phase = PhaseRunning,
                               ![Id].PhaseElapsed = Max(0, @ - T[Id].Duration),
                               ![Id].bNextTick = FALSE],
          ToRemove |-> Rem]
    ELSE [Timers |-> T, ToRemove |-> Append(Rem, Id)]

\* Faulty variant: the re-arm does not reset PhaseElapsed.
PostFire_NoReset(T, Id, Rem) ==
    IF Id \notin DOMAIN T THEN [Timers |-> T, ToRemove |-> Rem]
    ELSE IF T[Id].bLoop
    THEN [Timers |-> [T EXCEPT ![Id].Phase = PhaseRunning, ![Id].bNextTick = FALSE],
          ToRemove |-> Rem]
    ELSE [Timers |-> T, ToRemove |-> Append(Rem, Id)]

\* Faulty variant: every fired record is queued for removal.
PostFire_RemoveAll(T, Id, Rem) ==
    IF Id \notin DOMAIN T THEN [Timers |-> T, ToRemove |-> Rem]
    ELSE [Timers |-> T, ToRemove |-> Append(Rem, Id)]

\* Faulty variant: the re-arm starts the initial delay again.
PostFire_RestartDelay(T, Id, Rem) ==
    IF Id \notin DOMAIN T THEN [Timers |-> T, ToRemove |-> Rem]
    ELSE IF T[Id].bLoop
    THEN [Timers |-> [T EXCEPT ![Id].Phase = IF T[Id].InitialDelay > 0
                                              THEN PhaseInitialDelay ELSE PhaseRunning,
                               ![Id].PhaseElapsed = 0,
                               ![Id].bNextTick = FALSE],
          ToRemove |-> Rem]
    ELSE [Timers |-> T, ToRemove |-> Append(Rem, Id)]

\* Post-fire handling of Id: the map and the removal list it leaves.
PostFire(T, Id, Rem) ==
    IF Id \notin DOMAIN T THEN [Timers |-> T, ToRemove |-> Rem]
    ELSE IF T[Id].bLoop
    THEN [Timers |-> [T EXCEPT ![Id].Phase = PhaseRunning,
                               ![Id].PhaseElapsed = 0,
                               ![Id].bNextTick = FALSE],
          ToRemove |-> Rem]
    ELSE [Timers |-> T, ToRemove |-> Append(Rem, Id)]

\* The delegate returns into ExecuteFired: post-fire handling of its id, then
\* the loop goes on.
DelegateReturn ==
    /\ pc = "callback"
    /\ CanWriteLock
    /\ lastThread' = GameThread
    /\ LET Id == cur
           Post == PostFire(Timers, Id, ToRemove)
           H2 == IF FindMutable(Id) /\ Timers[Id].bLoop
                 THEN [hist EXCEPT
                         ![Id].gLost = @ + (hist[Id].gAcc - hist[Id].gMark) - Timers[Id].Duration,
                         ![Id].gMark = hist[Id].gAcc]
                 ELSE hist
       IN ExecuteFired(Post.Timers, ReusableToFire, Post.ToRemove, H2, tk)
    /\ UNCHANGED <<FiredThisTick, NextId, Life, TaskQueue, Returned, Result, Async>>
    /\ MapLock' = IF pc' = "callback" THEN HeldAcrossExecute ELSE "free"

\* Tick has returned to the engine's frame loop.
TickReturn ==
    /\ pc = "ret"
    /\ lastThread' = GameThread
    /\ MapLock' = MapLock
    /\ pc' = "idle"
    /\ tk' = NoTick
    /\ UNCHANGED <<Timers, FiredThisTick, ToRemove, ToUnpause, NextId, Life, ReusableToFire,
                   cur, TaskQueue, Returned, Result, Async, hist>>

-----------------------------------------------------------------------------
(* The same calls statement by statement, where the lock matters: what each
   one does while it holds MapLock and what it does after releasing it, with
   a reader of another thread in between. Here MapLock = "read" says that a
   reader of another thread holds the lock. *)

\* PauseTimer (b) / UnpauseTimer (~b) on the game thread between frames, up
\* to the return of FindMutable: the write lock taken, the record looked up,
\* the lock released by FindMutable's scope, the pointer returned.
PauseTimer_FindMutable(Id, b) ==
    /\ pc = "idle"
    /\ Initialized
    /\ CanWriteLock
    /\ lastThread' = GameThread
    /\ MapLock' = "free"
    /\ IF FindMutable(Id)
       THEN pc' = (IF b THEN "PauseTimer" ELSE "UnpauseTimer") /\ cur' = Id
       ELSE UNCHANGED <<pc, cur>>
    /\ UNCHANGED <<Timers, hist, NextId, Life, FiredThisTick, ToRemove, ToUnpause,
                   ReusableToFire, tk, TaskQueue, Returned, Result, Async>>

\* T->bPaused = true / false through the pointer FindMutable returned: no
\* lock is taken for it.
PauseTimer_Write ==
    /\ pc \in {"PauseTimer", "UnpauseTimer"}
    /\ lastThread' = GameThread
    /\ MapLock' = MapLock
    /\ SetPaused(cur, pc = "PauseTimer")
    /\ pc' = "idle"
    /\ cur' = 0
    /\ UNCHANGED <<FiredThisTick, ToRemove, ToUnpause, ReusableToFire, tk, TaskQueue,
                   Returned, Result, Async>>

\* ExecuteFired after the delegate has returned, up to the return of
\* FindMutable.
PostFire_FindMutable ==
    /\ pc = "callback"
    /\ CanWriteLock
    /\ lastThread' = GameThread
    /\ MapLock' = "free"
    /\ pc' = "postfire"
    /\ UNCHANGED <<Timers, hist, NextId, Life, FiredThisTick, ToRemove, ToUnpause,
                   ReusableToFire, cur, tk, TaskQueue, Returned, Result, Async>>

\* The post-fire handling through the pointer FindMutable returned: the
\* re-arm of a looping record, or ToRemove.Add; no lock is taken for it.
PostFire_Write ==
    /\ pc = "postfire"
    /\ lastThread' = GameThread
    /\ MapLock' = MapLock
    /\ LET Post == PostFire(Timers, cur, ToRemove) IN
       /\ Timers' = Post.Timers
       /\ ToRemove' = Post.ToRemove
    /\ hist' = IF FindMutable(cur) /\ Timers[cur].bLoop
               THEN [hist EXCEPT
                       ![cur].gLost = @ + (hist[cur].gAcc - hist[cur].gMark) - Timers[cur].Duration,
                       ![cur].gMark = hist[cur].gAcc]
               ELSE hist
    /\ pc' = "fire"
    /\ UNCHANGED <<NextId, Life, FiredThisTick, ToUnpause, ReusableToFire, cur, tk,
                   TaskQueue, Returned, Result, Async>>

\* ExecuteFired back at the head of its loop: GetData under the read lock for
\* the next id, and when no id is left Cleanup, under the write lock if it
\* has something to do.
ExecuteFired_Loop ==
    /\ pc = "fire"
    /\ CanReadLock
    /\ (SkipGone(ReusableToFire, Timers) = <<>> /\ (ToRemove # <<>> \/ ToUnpause # <<>>))
           => CanWriteLock
    /\ lastThread' = GameThread
    /\ MapLock' = MapLock
    /\ ExecuteFired(Timers, ReusableToFire, ToRemove, hist, tk)
    /\ UNCHANGED <<FiredThisTick, NextId, Life, TaskQueue, Returned, Result, Async>>

\* GetData entered by a query of another thread: the read lock taken.
GetData_Lock(thread) ==
    /\ Initialized
    /\ thread # GameThread
    /\ MapLock = "free"
    /\ lastThread' = thread
    /\ MapLock' = "read"
    /\ UNCHANGED <<Timers, hist, NextId, Life, TickState, TaskQueue, Returned, Result, Async>>

\* GetData copies the record and returns, the read lock released; the query
\* answers from the copy.
GetData_Unlock(thread, q, Id) ==
    /\ MapLock = "read"
    /\ thread # GameThread
    /\ Query(thread, q, Id, TRUE)

-----------------------------------------------------------------------------
(* The system. *)

\* The steps of the game thread and of the callers over the inputs of P.
\* The creations explored: ids up to P.create, at most P.live records at a
\* time.
CanCreate(P) ==
    /\ NextId + PendingCreates <= P.create
    /\ Cardinality(DOMAIN Timers) + PendingCreates < P.live

Step(P) ==
    \/ \E th \in P.threads, a \in P.args :
           CanCreate(P) /\ SetEnhancedTimer(th, a)
    \/ \E th \in P.threads :
           CanCreate(P) /\ SetEnhancedTimerExecutedInNextTick(th)
    \/ \E th \in P.threads, Id \in 0 .. P.create : InvalidateTimer(th, Id)
    \/ \E th \in P.threads, Id \in 0 .. P.create : PauseTimer(th, Id)
    \/ \E th \in P.threads, Id \in 0 .. P.create : UnpauseTimer(th, Id)
    \/ \E th \in P.threads : InvalidateAllTimers(th)
    \/ \E th \in P.threads : PauseAllTimers(th)
    \/ \E th \in P.threads : UnpauseAllTimers(th)
    \/ \E d \in P.deltas, w \in P.worlds, env \in Envs(P.pauses, P.gscales, P.ascales),
          order \in Perms(DOMAIN Timers) : Tick(d, w, env, order, P.horizon)
    \/ DelegateReturn
    \/ TickReturn

\* Two timers on the game thread, undilated, the game never paused: how
\* timers and the calls made from callbacks interact.
Main ==
    [ threads |-> {GameThread},
      args    |-> ArgsOver({0, 10000}, {<<IgnoreTimeDilation, nullptr>>}, {FALSE}, BOOLEAN,
                          {0}, {0}),
      create  |-> MaxCreate,
      live    |-> MaxCreate,
      horizon |-> MaxAcc,
      deltas  |-> {0, 5000, 10000},
      worlds  |-> BOOLEAN,
      pauses  |-> {FALSE},
      gscales |-> {ScaleDen},
      ascales |-> {ScaleDen} ]

Next == Step(Main)

Spec == Init /\ [][Next]_vars

\* The same with what the game thread is bound to do: a delegate returns,
\* Tick returns.
SpecFair == Spec /\ WF_vars(DelegateReturn) /\ WF_vars(TickReturn)

\* One timer with every kind of argument, under every host pause state and
\* dilation factors 1/2, 1 and 2 (actor: 0, 1/2 and 1).
One ==
    [ threads |-> {GameThread},
      args    |-> ArgsOver({0, 20000},
                          { <<IgnoreTimeDilation, nullptr>>, <<GlobalTimeDilation, nullptr>>,
                            <<ActorTimeDilation, SomeActor>>, <<ActorTimeDilation, nullptr>> },
                          BOOLEAN, BOOLEAN, {0, 5000}, {0, 5000}),
      create  |-> 1,
      live    |-> 1,
      horizon |-> MaxAccOne,
      deltas  |-> {0, 5000, 10000},
      worlds  |-> BOOLEAN,
      pauses  |-> BOOLEAN,
      gscales |-> {1, 2, 4},
      ascales |-> {0, 1, 2} ]

NextOne == Step(One)

SpecOne == Init /\ [][NextOne]_vars

\* Callers on the game thread and on a worker thread.
Thr ==
    [ threads |-> Threads,
      args    |-> ArgsOver({10000}, {<<IgnoreTimeDilation, nullptr>>}, {FALSE}, {TRUE},
                          {0}, {0}),
      create  |-> MaxCreate,
      live    |-> MaxCreate,
      horizon |-> MaxAcc,
      deltas  |-> {10000},
      worlds  |-> {TRUE},
      pauses  |-> {FALSE},
      gscales |-> {ScaleDen},
      ascales |-> {ScaleDen} ]

NextThreads == Step(Thr) \/ RunTask

SpecThreads == Init /\ [][NextThreads]_vars

\* The same callers, using SetEnhancedTimerAsync too. The game thread goes
\* on: a delegate it executes returns, Tick returns, and the engine runs the
\* queued game-thread tasks again and again between frames.
Asy ==
    [ threads |-> Threads,
      args    |-> ArgsOver({10000}, {<<IgnoreTimeDilation, nullptr>>}, {FALSE}, {FALSE},
                          {0}, {0}),
      create  |-> MaxCreate,
      live    |-> MaxCreate,
      horizon |-> MaxAcc,
      deltas  |-> {10000},
      worlds  |-> {TRUE},
      pauses  |-> {FALSE},
      gscales |-> {ScaleDen},
      ascales |-> {ScaleDen} ]

NextAsync ==
    \/ Step(Asy)
    \/ RunTask
    \/ \E th \in Asy.threads, a \in Asy.args :
           /\ CanCreate(Asy)
           /\ AsyncCalls < MaxAsync
           /\ SetEnhancedTimerAsync(th, a)

SpecAsync ==
    /\ Init /\ [][NextAsync]_vars
    /\ SF_vars(RunTask) /\ WF_vars(DelegateReturn) /\ WF_vars(TickReturn)

\* One timer, a loop of negative duration or a delayed one-shot, queried by
\* both threads through the subsystem and through handles whose owner is
\* alive or gone.
Qry ==
    [ threads |-> {GameThread},
      args    |-> ArgsOver({MinusOne}, {<<GlobalTimeDilation, nullptr>>}, {TRUE}, {TRUE},
                          {0}, {0})
                  \cup ArgsOver({10000}, {<<IgnoreTimeDilation, nullptr>>}, {TRUE}, {FALSE},
                                {20000}, {0}),
      create  |-> 1,
      live    |-> 1,
      horizon |-> MaxAcc,
      deltas  |-> {10000},
      worlds  |-> {TRUE},
      pauses  |-> {FALSE},
      gscales |-> {ScaleDen},
      ascales |-> {ScaleDen} ]

NextQuery ==
    \/ Step(Qry)
    \/ \E th \in Threads, q \in Queries, Id \in 0 .. MaxCreate, OwnerValid \in BOOLEAN :
           Query(th, q, Id, OwnerValid)

SpecQuery == Init /\ [][NextQuery]_vars


\* Ids through the whole range of the counter and past its wrap, with the
\* subsystem torn down and initialized again: the four creation calls, the
\* two cancellations, at most MaxCreate records at a time.
Ids ==
    [ threads |-> {GameThread},
      args    |-> ArgsOver({10000}, {<<IgnoreTimeDilation, nullptr>>}, {FALSE}, {FALSE},
                          {0}, {0}),
      create  |-> IdModulus,
      live    |-> MaxCreate ]

NextIds ==
    \/ \E th \in Ids.threads, a \in Ids.args : CanCreate(Ids) /\ SetEnhancedTimer(th, a)
    \/ \E th \in Ids.threads : CanCreate(Ids) /\ SetEnhancedTimerExecutedInNextTick(th)
    \/ \E th \in Ids.threads, a \in Ids.args : CanCreate(Ids) /\ SetEnhancedTimer_BP(th, a)
    \/ \E th \in Ids.threads : CanCreate(Ids) /\ SetEnhancedTimerExecutedInNextTick_BP(th)
    \/ \E th \in Ids.threads, Id \in 0 .. Ids.create : InvalidateTimer(th, Id)
    \/ \E th \in Ids.threads : InvalidateAllTimers(th)
    \/ Deinitialize
    \/ Initialize

SpecIds == Init /\ [][NextIds]_vars


\* One timer of 2 s, undilated or under the global dilation, frames of 1 s
\* with the global dilation at 1/2 or 2.
Dil ==
    [ threads |-> {GameThread},
      args    |-> ArgsOver({20000},
                          { <<IgnoreTimeDilation, nullptr>>, <<GlobalTimeDilation, nullptr>> },
                          {FALSE}, BOOLEAN, {0}, {0}),
      create  |-> 1,
      live    |-> 1,
      horizon |-> MaxAccOne,
      deltas  |-> {10000},
      worlds  |-> {TRUE},
      pauses  |-> {FALSE},
      gscales |-> {1, 4},
      ascales |-> {ScaleDen} ]

NextDilation == Step(Dil)

SpecDilation == Init /\ [][NextDilation]_vars


\* Two timers left to themselves (created, then only ticked), undilated or
\* under the dilation of an actor that is absent, dead or alive at factor 1/2.
Pair ==
    [ threads |-> {GameThread},
      args    |-> ArgsOver({10000},
                          { <<IgnoreTimeDilation, nullptr>>, <<ActorTimeDilation, nullptr>>,
                            <<ActorTimeDilation, SomeActor>> },
                          {FALSE}, BOOLEAN, {0, 5000}, {0}),
      create  |-> MaxCreate,
      live    |-> MaxCreate,
      horizon |-> MaxAcc,
      deltas  |-> {5000, 10000},
      worlds  |-> {TRUE},
      pauses  |-> {FALSE},
      gscales |-> {1, 2, 4},
      ascales |-> {1} ]

NextPair ==
    \/ \E th \in Pair.threads, a \in Pair.args : CanCreate(Pair) /\ SetEnhancedTimer(th, a)
    \/ \E d \in Pair.deltas, w \in Pair.worlds,
          env \in Envs(Pair.pauses, Pair.gscales, Pair.ascales),
          order \in Perms(DOMAIN Timers) : Tick(d, w, env, order, Pair.horizon)
    \/ DelegateReturn
    \/ TickReturn

SpecPair == Init /\ [][NextPair]_vars


\* Two timers that are paused and unpaused by the bulk calls only, between
\* frames and from callbacks.
NextBulk ==
    \/ \E th \in Main.threads, a \in Main.args : CanCreate(Main) /\ SetEnhancedTimer(th, a)
    \/ \E th \in Main.threads : CanCreate(Main) /\ SetEnhancedTimerExecutedInNextTick(th)
    \/ \E th \in Main.threads : PauseAllTimers(th)
    \/ \E th \in Main.threads : UnpauseAllTimers(th)
    \/ \E d \in Main.deltas, w \in Main.worlds,
          env \in Envs(Main.pauses, Main.gscales, Main.ascales),
          order \in Perms(DOMAIN Timers) : Tick(d, w, env, order, Main.horizon)
    \/ DelegateReturn
    \/ TickReturn

SpecBulk == Init /\ [][NextBulk]_vars


\* Two timers of 1 s, paused and unpaused one by one and in bulk between
\* frames, with another thread querying them: the calls taken statement by
\* statement.
Lck ==
    [ threads |-> {GameThread},
      args    |-> ArgsOver({10000}, {<<IgnoreTimeDilation, nullptr>>}, {FALSE}, BOOLEAN,
                          {0}, {0}),
      create  |-> MaxCreate,
      live    |-> MaxCreate,
      horizon |-> MaxAcc,
      deltas  |-> {10000},
      worlds  |-> {TRUE},
      pauses  |-> {FALSE},
      gscales |-> {ScaleDen},
      ascales |-> {ScaleDen} ]

NextLock ==
    \/ \E th \in Lck.threads, a \in Lck.args : CanCreate(Lck) /\ SetEnhancedTimer(th, a)
    \/ \E Id \in 0 .. Lck.create, b \in BOOLEAN : PauseTimer_FindMutable(Id, b)
    \/ PauseTimer_Write
    \/ \E th \in Lck.threads : PauseAllTimers(th)
    \/ \E th \in Lck.threads : UnpauseAllTimers(th)
    \/ \E d \in Lck.deltas, w \in Lck.worlds,
          env \in Envs(Lck.pauses, Lck.gscales, Lck.ascales),
          order \in Perms(DOMAIN Timers) : Tick(d, w, env, order, Lck.horizon)
    \/ PostFire_FindMutable
    \/ PostFire_Write
    \/ ExecuteFired_Loop
    \/ TickReturn
    \/ GetData_Lock(Worker)
    \/ \E q \in {"IsTimerPaused", "GetTimerElapsedTime"}, Id \in 1 .. Lck.create :
           GetData_Unlock(Worker, q, Id)

SpecLock == Init /\ [][NextLock]_vars


\* One timer at a time, created by either creation call with a delay of 0,
\* 2 units or 0.5 s and a variation of 0 or 3 units, every draw followed.
Dly ==
    [ threads |-> {GameThread},
      args    |-> ArgsOver({10000}, {<<IgnoreTimeDilation, nullptr>>}, {FALSE}, {FALSE},
                          {0, 2, 5000}, {0, MaxDraw}),
      create  |-> MaxCreate,
      live    |-> 1,
      horizon |-> MaxAcc,
      deltas  |-> {5000},
      worlds  |-> {TRUE},
      pauses  |-> {FALSE},
      gscales |-> {ScaleDen},
      ascales |-> {ScaleDen} ]

NextDelay ==
    \/ \E th \in Dly.threads, a \in Dly.args : CanCreate(Dly) /\ SetEnhancedTimer(th, a)
    \/ \E th \in Dly.threads, a \in Dly.args : CanCreate(Dly) /\ SetEnhancedTimer_BP(th, a)
    \/ \E th \in Dly.threads, Id \in 1 .. Dly.create : InvalidateTimer(th, Id)
    \/ \E d \in Dly.deltas, w \in Dly.worlds,
          env \in Envs(Dly.pauses, Dly.gscales, Dly.ascales),
          order \in Perms(DOMAIN Timers) : Tick(d, w, env, order, Dly.horizon)
    \/ DelegateReturn
    \/ TickReturn

SpecDelay == Init /\ [][NextDelay]_vars


\* Two looping timers of 1 s, cancelled, paused and unpaused one by one
\* through handles of any id, 0 and ids not in the store included: a record
\* leaves the store by InvalidateTimer only.
Inv ==
    [ threads |-> {GameThread},
      args    |-> ArgsOver({10000}, {<<IgnoreTimeDilation, nullptr>>}, {FALSE}, {TRUE},
                          {0}, {0}),
      create  |-> MaxCreate,
      live    |-> MaxCreate,
      horizon |-> MaxAcc,
      deltas  |-> {5000},
      worlds  |-> {TRUE},
      pauses  |-> {FALSE},
      gscales |-> {ScaleDen},
      ascales |-> {ScaleDen} ]

NextInvalid ==
    \/ \E th \in Inv.threads, a \in Inv.args : CanCreate(Inv) /\ SetEnhancedTimer(th, a)
    \/ \E th \in Inv.threads, Id \in 0 .. Inv.create + 1 : InvalidateTimer(th, Id)
    \/ \E th \in Inv.threads, Id \in 0 .. Inv.create + 1 : PauseTimer(th, Id)
    \/ \E th \in Inv.threads, Id \in 0 .. Inv.create + 1 : UnpauseTimer(th, Id)
    \/ \E d \in Inv.deltas, w \in Inv.worlds,
          env \in Envs(Inv.pauses, Inv.gscales, Inv.ascales),
          order \in Perms(DOMAIN Timers) : Tick(d, w, env, order, Inv.horizon)
    \/ DelegateReturn
    \/ TickReturn

SpecInvalid == Init /\ [][NextInvalid]_vars

\* Three timers, at most two at a time, of every kind at once: next-tick,
\* zero-duration and 1 s, one-shot and looping, with and without an initial
\* delay of 0.5 s, created, cancelled and paused one by one between frames
\* and from callbacks.
Mix ==
    [ threads |-> {GameThread},
      args    |-> ArgsOver({0, 10000}, {<<IgnoreTimeDilation, nullptr>>}, {FALSE}, BOOLEAN,
                          {0, 5000}, {0}),
      create  |-> MaxCreate + 1,
      live    |-> MaxCreate,
      horizon |-> MaxAcc,
      deltas  |-> {0, 5000},
      worlds  |-> BOOLEAN,
      pauses  |-> {FALSE},
      gscales |-> {ScaleDen},
      ascales |-> {ScaleDen} ]

NextMix ==
    \/ \E th \in Mix.threads, a \in Mix.args : CanCreate(Mix) /\ SetEnhancedTimer(th, a)
    \/ \E th \in Mix.threads : CanCreate(Mix) /\ SetEnhancedTimerExecutedInNextTick(th)
    \/ \E th \in Mix.threads, Id \in 1 .. Mix.create : InvalidateTimer(th, Id)
    \/ \E th \in Mix.threads, Id \in 1 .. Mix.create : PauseTimer(th, Id)
    \/ \E d \in Mix.deltas, w \in Mix.worlds,
          env \in Envs(Mix.pauses, Mix.gscales, Mix.ascales),
          order \in Perms(DOMAIN Timers) : Tick(d, w, env, order, Mix.horizon)
    \/ DelegateReturn
    \/ TickReturn

SpecMix == Init /\ [][NextMix]_vars


\* The same timers, the next-tick ones created from callbacks only: every
\* next-tick record of the store was created during the fire pass of a Tick.
NextNested ==
    \/ \E th \in Mix.threads, a \in Mix.args : CanCreate(Mix) /\ SetEnhancedTimer(th, a)
    \/ \E th \in Mix.threads :
           pc = "callback" /\ CanCreate(Mix) /\ SetEnhancedTimerExecutedInNextTick(th)
    \/ \E th \in Mix.threads, Id \in 1 .. Mix.create : InvalidateTimer(th, Id)
    \/ \E th \in Mix.threads, Id \in 1 .. Mix.create : PauseTimer(th, Id)
    \/ \E d \in Mix.deltas, w \in Mix.worlds,
          env \in Envs(Mix.pauses, Mix.gscales, Mix.ascales),
          order \in Perms(DOMAIN Timers) : Tick(d, w, env, order, Mix.horizon)
    \/ DelegateReturn
    \/ TickReturn

SpecNested == Init /\ [][NextNested]_vars

\* Regular timers of 1 s created by a worker thread through SetEnhancedTimer,
\* next-tick timers created by the game thread; the callers cancel through the
\* handle the last creation call returned to them, or in bulk.
Orp ==
    [ threads |-> Threads,
      args    |-> ArgsOver({10000}, {<<IgnoreTimeDilation, nullptr>>}, {FALSE}, BOOLEAN,
                          {0}, {0}),
      create  |-> MaxCreate + 1,
      live    |-> MaxCreate,
      horizon |-> MaxAcc,
      deltas  |-> {5000, 10000},
      worlds  |-> {TRUE},
      pauses  |-> {FALSE},
      gscales |-> {ScaleDen},
      ascales |-> {ScaleDen} ]

NextOrphan ==
    \/ \E a \in Orp.args : CanCreate(Orp) /\ SetEnhancedTimer(Worker, a)
    \/ CanCreate(Orp) /\ SetEnhancedTimerExecutedInNextTick(GameThread)
    \/ \E th \in Orp.threads : InvalidateTimer(th, Returned)
    \/ \E th \in Orp.threads : InvalidateAllTimers(th)
    \/ RunTask
    \/ \E d \in Orp.deltas, w \in Orp.worlds,
          env \in Envs(Orp.pauses, Orp.gscales, Orp.ascales),
          order \in Perms(DOMAIN Timers) : Tick(d, w, env, order, Orp.horizon)
    \/ DelegateReturn
    \/ TickReturn

SpecOrphan == Init /\ [][NextOrphan]_vars

-----------------------------------------------------------------------------
(* Properties. A Tick call is observed when it has returned (pc = "ret"):
   tk then holds the store and the history at its entry, its inputs and the
   delegates it executed. "Reaches" is read with the tolerance of the code:
   x reaches y when x + KINDA_SMALL_NUMBER >= y. A Tick call means one made
   while the subsystem has a World. *)

TickDone == pc = "ret" /\ tk.World

Reaches(x, y) == x + KINDA_SMALL_NUMBER >= y

\* The host values of the Tick observed.
TickEnv == [bPausedNow |-> tk.bPausedNow, GlobalScale |-> tk.GlobalScale,
            ActorScale |-> tk.ActorScale, ActorValid |-> tk.ActorValid]

\* The effective delta the Tick observed gave to the record id had at entry.
TickEff(id) == GetEffectiveDelta(tk.pre[id], tk.DeltaTime, TickEnv)

\* A non-looping timer of SetEnhancedTimer without initial delay, undilated.
PlainOneShot(T) ==
    ~T.bLoop /\ ~T.bNextTick /\ T.InitialDelay = 0 /\ T.DilationMode = IgnoreTimeDilation

\* C1. One-shot firing. In every Tick call during which the host is not paused
\* and a plain one-shot timer is not explicitly paused: the timer has not
\* fired before; if the deltas it has been fed, this one included, reach its
\* duration, the Tick executes its delegate (once) and the timer is absent
\* from the store when the Tick returns; otherwise the Tick executes nothing
\* and the timer stays. The deltas are counted over the Tick calls in which
\* the timer was not frozen, which for a timer never paused are all of them.
C1_OneShotFiresOnce ==
    TickDone =>
        \A id \in DOMAIN tk.pre :
            LET T == tk.pre[id]
                Acc == tk.preHist[id].gAcc + tk.DeltaTime
            IN (PlainOneShot(T) /\ ~T.bPaused /\ ~tk.bPausedNow) =>
                   /\ tk.preHist[id].gFires = 0
                   /\ IF Reaches(Acc, T.Duration)
                      THEN tk.log = <<id>> /\ ~IsTimerValid(id)
                      ELSE tk.log = <<>> /\ IsTimerValid(id)

\* A 2 s one-shot timer, never frozen, fed 1.5 s and then a 1 s delta: fired
\* in that Tick and gone.
C1_Witness ==
    /\ TickDone
    /\ \E id \in DOMAIN tk.pre :
           /\ PlainOneShot(tk.pre[id]) /\ tk.pre[id].Duration = 20000
           /\ ~tk.preHist[id].gPaused /\ tk.preHist[id].gAcc = 15000
           /\ ~tk.bPausedNow /\ tk.DeltaTime = 10000
           /\ tk.log = <<id>> /\ ~IsTimerValid(id)

\* C2. Next-tick semantics. In every Tick call entered with a next-tick timer
\* in the store that is not explicitly paused, the Tick executes its delegate
\* (once) and the timer is absent from the store when the Tick returns,
\* whatever the delta and the host pause state are. The timer is therefore
\* fired by the first Tick call that follows its creation.
C2_NextTickFires ==
    TickDone =>
        \A id \in DOMAIN tk.pre :
            (tk.pre[id].bNextTick /\ ~tk.pre[id].bPaused) =>
                tk.log = <<id>> /\ ~IsTimerValid(id)

\* A next-tick timer fired by a Tick of delta 0 while the host is paused.
C2_Witness ==
    /\ TickDone /\ tk.DeltaTime = 0 /\ tk.bPausedNow
    /\ \E id \in DOMAIN tk.pre :
           tk.pre[id].bNextTick /\ tk.log = <<id>> /\ ~IsTimerValid(id)

\* A Tick has returned or none is running: the moments "after a sequence of
\* Tick calls".
BetweenTicks == pc \in {"idle", "ret"}

\* A looping timer of duration > 0 without initial delay, undilated, never
\* paused nor frozen.
PlainLoop(id) ==
    /\ Timers[id].bLoop /\ Timers[id].Duration > 0 /\ Timers[id].InitialDelay = 0
    /\ Timers[id].DilationMode = IgnoreTimeDilation
    /\ ~hist[id].gPaused

C4_LoopReArm ==
    TickDone =>
        \A id \in DOMAIN tk.pre :
            LET T == tk.pre[id]
                H == tk.preHist[id]
                Since == H.gAcc - H.gMark + TickEff(id)
                Fired == tk.log = <<id>>
            IN T.bLoop =>
                /\ Fired => /\ Reaches(Since, T.Duration)
                            /\ IsTimerValid(id) =>
                                   /\ Timers[id].PhaseElapsed = 0
                                   /\ Timers[id].Phase = PhaseRunning
                /\ (T.Phase = PhaseRunning /\ ~Gated(T, tk.bPausedNow)) =>
                       (Fired <=> Reaches(Since, T.Duration))
                /\ ( /\ T.Duration = 20000 /\ T.DilationMode = IgnoreTimeDilation
                     /\ T.InitialDelay = 0 /\ ~H.gPaused /\ ~Gated(T, tk.bPausedNow)
                     /\ tk.DeltaTime = 5000 ) =>
                       /\ H.gAcc < 15000 => ~Fired /\ H.gFires = 0
                       /\ H.gAcc = 15000 => Fired /\ H.gFires = 0
                       /\ (H.gAcc = 20000 /\ H.gLost = 0) => ~Fired /\ H.gFires = 1

\* The fifth tick of 0.5 s of a 2 s looping timer: it fired once, on reaching
\* 2 s, and this Tick executes nothing and leaves PhaseElapsed at 0.5 s.
C4_Witness ==
    /\ TickDone /\ tk.DeltaTime = 5000 /\ tk.log = <<>>
    /\ \E id \in DOMAIN tk.pre :
           /\ tk.pre[id].bLoop /\ tk.pre[id].Duration = 20000
           /\ tk.pre[id].DilationMode = IgnoreTimeDilation /\ ~tk.preHist[id].gPaused
           /\ tk.preHist[id].gAcc = 20000 /\ tk.preHist[id].gFires = 1
           /\ tk.preHist[id].gLost = 0
           /\ IsTimerValid(id) /\ Timers[id].PhaseElapsed = 5000

\* C5. Initial delay. A timer created with an initial delay I > 0 is fired by
\* a Tick only if the effective deltas it was fed before that Tick had already
\* reached I; and a Tick entered with the record in phase InitialDelay never
\* fires it: the record moves to Running with PhaseElapsed 0 if the deltas
\* since its creation, this one included, reach I (and the record is not
\* frozen), and stays in InitialDelay otherwise, whatever its duration and
\* the delta are.
C5_InitialDelay ==
    TickDone =>
        \A id \in DOMAIN tk.pre :
            LET T == tk.pre[id]
                H == tk.preHist[id]
            IN /\ (T.InitialDelay > 0 /\ id \in Range(tk.log)) =>
                      Reaches(H.gAcc, T.InitialDelay) /\ T.Phase = PhaseRunning
               /\ T.Phase = PhaseInitialDelay =>
                      /\ id \notin Range(tk.log)
                      /\ IsTimerValid(id)
                      /\ IF ~Gated(T, tk.bPausedNow)
                            /\ Reaches(H.gAcc + TickEff(id), T.InitialDelay)
                         THEN /\ Timers[id].Phase = PhaseRunning
                              /\ Timers[id].PhaseElapsed = 0
                         ELSE /\ Timers[id].Phase = PhaseInitialDelay
                              /\ ~Reaches(Timers[id].PhaseElapsed, T.InitialDelay)

\* A timer of duration 0 and initial delay 0.5 s fed a first delta of 1 s:
\* moved to Running with PhaseElapsed 0, not fired.
C5_Witness ==
    /\ TickDone /\ tk.DeltaTime = 10000 /\ tk.log = <<>>
    /\ \E id \in DOMAIN tk.pre :
           /\ tk.pre[id].Phase = PhaseInitialDelay /\ tk.pre[id].InitialDelay = 5000
           /\ tk.pre[id].Duration = 0 /\ tk.pre[id].DilationMode = IgnoreTimeDilation
           /\ tk.preHist[id].gAcc = 0
           /\ IsTimerValid(id)
           /\ Timers[id].Phase = PhaseRunning /\ Timers[id].PhaseElapsed = 0

\* C6. Explicit pause freezes a timer. A Tick entered with a record whose
\* bPaused is true does not fire it and returns with the record in the store,
\* its PhaseElapsed and its phase unchanged, whatever bAffectedByGamePause,
\* the host pause state and the delta are.
C6_ExplicitPauseFreezes ==
    TickDone =>
        \A id \in DOMAIN tk.pre :
            tk.pre[id].bPaused =>
                /\ id \notin Range(tk.log)
                /\ IsTimerValid(id)
                /\ Timers[id].PhaseElapsed = tk.pre[id].PhaseElapsed
                /\ Timers[id].Phase = tk.pre[id].Phase
                /\ Timers[id].bPaused

\* An explicitly paused timer of duration 0, not subject to the host pause,
\* left untouched by a Tick of 1 s made while the host is paused.
C6_Witness ==
    /\ TickDone /\ tk.DeltaTime = 10000 /\ tk.bPausedNow
    /\ \E id \in DOMAIN tk.pre :
           /\ tk.pre[id].bPaused /\ tk.pre[id].bAffectedByGamePause
           /\ tk.pre[id].Duration = 0 /\ tk.pre[id].Phase = PhaseRunning
           /\ IsTimerValid(id) /\ Timers[id] = tk.pre[id]

\* What a Tick does to a record that no gate stops: a next-tick record is
\* fired; a record in its initial delay is advanced and moved to Running if
\* the delay is reached; a running record is advanced and fired if its
\* duration is reached. A record fired is re-armed if it loops and still
\* exists, removed otherwise.
ProcessedNormally(id) ==
    LET T == tk.pre[id]
        Adv == T.PhaseElapsed + TickEff(id)
        Fired == tk.log = <<id>>
        Kept(Phase, Elapsed) ==
            /\ ~Fired /\ IsTimerValid(id)
            /\ Timers[id].Phase = Phase /\ Timers[id].PhaseElapsed = Elapsed
        FiredOff ==
            /\ Fired
            /\ IF T.bLoop
               THEN IsTimerValid(id) =>
                        Timers[id].Phase = PhaseRunning /\ Timers[id].PhaseElapsed = 0
               ELSE ~IsTimerValid(id)
    IN IF T.bNextTick THEN FiredOff
       ELSE IF T.Phase = PhaseInitialDelay
       THEN IF Reaches(Adv, T.InitialDelay) THEN Kept(PhaseRunning, 0)
            ELSE Kept(PhaseInitialDelay, Adv)
       ELSE IF Reaches(Adv, T.Duration) THEN FiredOff
            ELSE Kept(PhaseRunning, Adv)

\* C7. Host pause composition. In a Tick made while the host is paused, a
\* record that is not explicitly paused and has bAffectedByGamePause false is
\* not fired and is in the store, unchanged, when the Tick returns; a record
\* with bAffectedByGamePause true is advanced, transitioned and fired as the
\* rules for a host that is not paused say.
C7_HostPause ==
    (TickDone /\ tk.bPausedNow) =>
        \A id \in DOMAIN tk.pre :
            ~tk.pre[id].bPaused =>
                IF ~tk.pre[id].bAffectedByGamePause
                THEN /\ id \notin Range(tk.log)
                     /\ IsTimerValid(id)
                     /\ Timers[id] = tk.pre[id]
                ELSE ProcessedNormally(id)

\* While the host is paused, a 2 s timer with bAffectedByGamePause true
\* reaches its duration and is fired.
C7_Witness ==
    /\ TickDone /\ tk.bPausedNow
    /\ \E id \in DOMAIN tk.pre :
           /\ ~tk.pre[id].bPaused /\ tk.pre[id].bAffectedByGamePause
           /\ ~tk.pre[id].bNextTick /\ tk.pre[id].Duration = 20000
           /\ tk.log = <<id>>

\* The step executes the delegate of id.
Invoked(id) ==
    /\ tk'.log # tk.log
    /\ tk'.log # <<>>
    /\ tk'.log[Len(tk'.log)] = id

\* id was handed out and its record is no longer in the store.
Gone(id) == id < NextId /\ id \notin DOMAIN Timers

\* C8. Cancellation. A step of InvalidateTimer on an id, or of
\* InvalidateAllTimers, executed on the game thread (between Ticks or from
\* inside a delegate) leaves the id absent from the store; and from a state in
\* which the record of an id is gone, no step executes its delegate or puts
\* the id back in the store: a timer marked due and then invalidated by a
\* delegate of the same Tick is not fired, re-armed or re-inserted.
C8_Cancellation ==
    [][ \A id \in 1 .. MaxCreate :
            /\ (InvalidateTimer(GameThread, id) \/ InvalidateAllTimers(GameThread)) =>
                   id \notin DOMAIN Timers'
            /\ Gone(id) => (id \notin DOMAIN Timers' /\ ~Invoked(id)) ]_vars

\* A Tick marked two timers due and executed the first only: its delegate, a
\* looping timer's, invalidated both; the store is empty on return.
C8_Witness ==
    /\ TickDone
    /\ Len(tk.order) = 2
    /\ tk.log = <<tk.order[1]>>
    /\ tk.pre[tk.order[1]].bLoop /\ tk.pre[tk.order[1]].Duration > 0
    /\ DOMAIN Timers = {}

\* C9. Record lifecycle. Every step that takes a record out of the store is
\* InvalidateTimer on its id, InvalidateAllTimers, or the end of a Tick that
\* executed the record's delegate, the record having bLoop false; so no Tick
\* removes a record with bLoop true.
C9_Lifecycle ==
    [][ \A id \in DOMAIN Timers :
            id \notin DOMAIN Timers' =>
                \/ InvalidateTimer(GameThread, id)
                \/ InvalidateAllTimers(GameThread)
                \/ /\ pc # "ret" /\ pc' = "ret"
                   /\ id \in Range(tk'.log)
                   /\ ~Timers[id].bLoop ]_vars

\* A Tick fired a looping timer for at least the second time and left it in
\* the store, and fired a non-looping timer and removed it.
C9_Witness ==
    /\ TickDone
    /\ \E id \in DOMAIN Timers :
           Timers[id].bLoop /\ id \in Range(tk.log) /\ hist[id].gFires >= 2
    /\ \E id \in Range(tk.log) : ~tk.pre[id].bLoop /\ ~IsTimerValid(id)

\* The step is a creation call made off the game thread: it queues the
\* deferred creation.
QueuesCreate ==
    /\ Len(TaskQueue') = Len(TaskQueue) + 1
    /\ IsCreate(TaskQueue'[Len(TaskQueue')])

\* C10. Off-thread synchronous creation. A creation call made off the game
\* thread returns the invalid handle (id 0) and leaves the store and the id
\* counter as they were; and every step that adds a record to the store is
\* either a creation call on the game thread, which returns the new record's
\* id, or the game thread running a deferred creation.
C10_OffThreadCreate ==
    [][ /\ QueuesCreate =>
               /\ Returned' = 0
               /\ Returned' \notin DOMAIN Timers'
               /\ Timers' = Timers
               /\ NextId' = NextId
        /\ DOMAIN Timers' \ DOMAIN Timers # {} =>
               \/ /\ TaskQueue' = TaskQueue
                  /\ DOMAIN Timers' \ DOMAIN Timers = {Returned'}
               \/ /\ pc = "idle"
                  /\ TaskQueue # <<>>
                  /\ IsCreate(Head(TaskQueue))
                  /\ TaskQueue' = Tail(TaskQueue) ]_vars

\* A creation queued from the worker thread while a delegate runs on the game
\* thread: the handle returned is 0 and the store holds the firing timer only.
C10_Witness ==
    /\ pc = "callback"
    /\ TaskQueue # <<>> /\ IsCreate(Head(TaskQueue))
    /\ Returned = 0
    /\ DOMAIN Timers = {cur}

\* OnComplete of the n-th SetEnhancedTimerAsync call has been invoked.
Completed(n) == \E i \in DOMAIN Completions : Completions[i].n = n

\* C11. Asynchronous creation. Every invocation of a completion callback is
\* made by the game thread with a handle of nonzero id that is in the store
\* at that moment, and no call's completion is invoked twice; a call made on
\* the game thread invokes its completion within the call; and, the game
\* thread running its queued tasks again and again, the completion of every
\* SetEnhancedTimerAsync call is eventually invoked.
C11_AsyncCompletion ==
    /\ [](/\ \A i \in DOMAIN Completions :
                /\ Completions[i].thread = GameThread
                /\ Completions[i].Id # 0
                /\ Completions[i].valid
                /\ Completions[i].n \in 1 .. AsyncCalls
          /\ \A i, j \in DOMAIN Completions :
                Completions[i].n = Completions[j].n => i = j)
    /\ [][(AsyncCalls' # AsyncCalls /\ TaskQueue' = TaskQueue) =>
              /\ pc \in {"idle", "callback"}
              /\ Completions' # Completions
              /\ Completions'[Len(Completions')].n = AsyncCalls'
              /\ Completions'[Len(Completions')].caller = GameThread]_vars
    /\ \A n \in 1 .. MaxAsync : (AsyncCalls >= n) ~> Completed(n)

\* Two completions have run, the second for a call made on the worker thread
\* while the first timer's delegate was executing.
C11_Witness ==
    /\ Len(Completions) = 2
    /\ Completions[2].caller = Worker /\ Completions[2].thread = GameThread
    /\ Completions[2].valid /\ Completions[2].Id = 2
    /\ Completions[1].caller = GameThread

\* The store and everything Tick keeps beside it.
StoreState == <<Timers, NextId, FiredThisTick, ToRemove, ToUnpause, ReusableToFire>>

\* The game thread runs the deferred lambda at the head of the queue.
RunsDeferred ==
    /\ lastThread' = GameThread
    /\ MapLock' = "free"
    /\ TaskQueue # <<>>
    /\ TaskQueue' = Tail(TaskQueue)

\* What the call repeated by lambda t does to the store when it takes effect.
TakesEffect(t) ==
    CASE IsCreate(t) \/ t.op = "SetEnhancedTimerAsync" ->
             /\ DOMAIN Timers' = DOMAIN Timers \cup {NextId}
             /\ Timers'[NextId].bNextTick =
                    (t.op \in {"SetEnhancedTimerExecutedInNextTick",
                               "SetEnhancedTimerExecutedInNextTick_BP"})
             /\ \A i \in DOMAIN Timers \ {NextId} : Timers'[i] = Timers[i]
      [] t.op = "InvalidateTimer" ->
             /\ DOMAIN Timers' = DOMAIN Timers \ {t.Id}
             /\ \A i \in DOMAIN Timers' : Timers'[i] = Timers[i]
      [] t.op \in {"PauseTimer", "UnpauseTimer"} ->
             /\ DOMAIN Timers' = DOMAIN Timers
             /\ \A i \in DOMAIN Timers :
                    Timers'[i] = IF i = t.Id
                                 THEN [Timers[i] EXCEPT !.bPaused = (t.op = "PauseTimer")]
                                 ELSE Timers[i]
      [] t.op = "InvalidateAllTimers" -> DOMAIN Timers' = {}
      [] OTHER ->
             /\ DOMAIN Timers' = DOMAIN Timers
             /\ \A i \in DOMAIN Timers :
                    Timers'[i] = [Timers[i] EXCEPT !.bPaused = (t.op = "PauseAllTimers")]

\* C12. Single-owner-thread mutation. Every step that changes the store, the
\* id counter or the buffers Tick keeps is a step of the game thread; a step
\* of another thread (a creation, InvalidateTimer, PauseTimer, UnpauseTimer,
\* InvalidateAllTimers, PauseAllTimers or UnpauseAllTimers call) changes none
\* of them and only appends one deferred lambda to the queue; and the call
\* takes effect on the store in the step of the game thread that runs that
\* lambda.
C12_OwnerThreadMutates ==
    [][ /\ StoreState' # StoreState => lastThread' = GameThread
        /\ lastThread' # GameThread =>
               /\ StoreState' = StoreState
               /\ Len(TaskQueue') = Len(TaskQueue) + 1
               /\ \A i \in DOMAIN TaskQueue : TaskQueue'[i] = TaskQueue[i]
               /\ pc' = pc
        /\ RunsDeferred => TakesEffect(Head(TaskQueue)) ]_vars

\* A worker thread has just called InvalidateTimer on a live paused timer: the
\* record is still in the store, the call waits in the queue.
C12_Witness ==
    /\ lastThread = Worker
    /\ TaskQueue # <<>>
    /\ TaskQueue[Len(TaskQueue)].op = "InvalidateTimer"
    /\ TaskQueue[Len(TaskQueue)].Id \in DOMAIN Timers
    /\ Timers[TaskQueue[Len(TaskQueue)].Id].bPaused

\* A query finds no record: the id is 0 or not in the store, or the method is
\* a handle's and its owner is gone.
NotThere(q, Id, OwnerValid) ==
    \/ Id = 0
    \/ Id \notin DOMAIN Timers
    \/ q \in HandleMethods /\ ~OwnerValid

\* C13. Query sentinels. Every query (the subsystem's IsTimerValid,
\* IsTimerPaused, IsTimerLooping, GetTimerDuration, GetTimerTimeLeft,
\* GetTimerElapsedTime, IsTimerAffectedByGamePause, GetTimerTimeDilationMode
\* and the handle's methods) made on id 0, on an id not in the store or
\* through a handle whose owner is gone returns false, -1 or
\* IgnoreTimeDilation; a float query returns -1 in that case only; and no
\* query changes the store, the id counter, the buffers or the task queue.
C13_QuerySentinels ==
    [][ Result'.seq # Result.seq =>
          LET r == Result' IN
          /\ StoreState' = StoreState
          /\ TaskQueue' = TaskQueue
          /\ NotThere(r.query, r.Id, r.Owner) =>
                 /\ r.query \in BoolQueries \cup BoolMethods => r.b = FALSE
                 /\ r.query \in FloatQueries \cup FloatMethods => r.f = MinusOne
                 /\ r.query \in ModeQueries \cup ModeMethods => r.e = IgnoreTimeDilation
          /\ r.query \in FloatQueries \cup FloatMethods /\ r.f = MinusOne =>
                 NotThere(r.query, r.Id, r.Owner) ]_vars

\* The elapsed time of a timer that was created and is gone has just been
\* asked for, and -1 came back.
C13_Witness ==
    /\ Result.query = "GetTimerElapsedTime"
    /\ Result.Id = 1
    /\ NextId = 2
    /\ 1 \notin DOMAIN Timers
    /\ Result.f = MinusOne

\* The step creates a timer: the id counter is consumed and the id it held is
\* a key of the store.
Creates == NextId' = AllocateId.Next /\ AllocateId.Out \in DOMAIN Timers'

\* C14. Id uniqueness. Over any sequence of creations, removals, bulk clears,
\* teardowns and re-initialisations since the process started: a created
\* timer gets an id no earlier timer got, the insertion does not replace a
\* live record, and an id that was given out and is no longer in the store
\* (a handle to a removed timer) is never in the store again.
C14_IdsUnique ==
    [][ /\ Creates => AllocateId.Out \notin Issued
        /\ Creates => AllocateId.Out \notin DOMAIN Timers
        /\ \A id \in Issued \ DOMAIN Timers : id \notin DOMAIN Timers' ]_vars

\* C15. Zero is never an id. The id counter is never 0, so AllocateId never
\* returns 0, at the wrap of the counter included; no record of the store has
\* id 0; and a creation call on the game thread returns the nonzero id of the
\* record it inserted.
C15_ZeroNeverAnId ==
    /\ [](/\ NextId # 0
          /\ AllocateId.Out # 0
          /\ AllocateId.Next # 0
          /\ 0 \notin Issued
          /\ \A i \in DOMAIN Timers : i # 0 /\ Timers[i].Id = i)
    /\ [][ Creates /\ lastThread' = GameThread /\ TaskQueue' = TaskQueue =>
               Returned' # 0 /\ Returned' \in DOMAIN Timers' ]_vars

\* Every id of the counter's range has been given out, the counter has
\* wrapped, and the creation after the wrap returned id 1.
C15_Witness ==
    /\ Issued = 1 .. (IdModulus - 1)
    /\ Returned = 1
    /\ NextId = 2
    /\ 1 \in DOMAIN Timers

\* The delta the claim gives a record: the raw one when undilated, the raw
\* one times the global dilation factor under the global dilation.
ScaledDelta(T) ==
    IF T.DilationMode = IgnoreTimeDilation
    THEN tk.DeltaTime
    ELSE (tk.DeltaTime * tk.GlobalScale) \div ScaleDen

\* C16. Dilation: Ignore and Global. In every Tick call, a running timer that
\* is not paused, undilated or under the global dilation, is advanced by the
\* raw delta (Ignore) or by the raw delta times the global dilation factor
\* (Global): it fires exactly when its elapsed time so advanced reaches its
\* duration, and is otherwise left with it. With a duration of 2 s, the
\* global dilation at 1/2 and frames of 1 s, a one-shot timer that has been
\* fed n frames, none firing it, has n in 0..3 and elapsed time n/2 s, and
\* the Tick fires it exactly when n = 3: on the fourth frame, on none of the
\* first three. (Frames here are of 1 s at factor 1/2 or 2, so a timer not
\* yet fired has only had frames at 1/2.)
C16_IgnoreAndGlobal ==
    TickDone =>
        \A id \in DOMAIN tk.pre :
            LET T == tk.pre[id]
                Acc == tk.preHist[id].gAcc
            IN (/\ T.DilationMode \in {IgnoreTimeDilation, GlobalTimeDilation}
                /\ T.Phase = PhaseRunning /\ ~T.bNextTick /\ ~T.bPaused /\ ~tk.bPausedNow) =>
                   /\ tk.log = <<id>> <=> Reaches(T.PhaseElapsed + ScaledDelta(T), T.Duration)
                   /\ tk.log = <<>> =>
                          /\ IsTimerValid(id)
                          /\ Timers[id].PhaseElapsed = T.PhaseElapsed + ScaledDelta(T)
                   /\ (/\ T.DilationMode = GlobalTimeDilation /\ ~T.bLoop
                       /\ T.Duration = 20000 /\ ~tk.preHist[id].gPaused
                       /\ tk.DeltaTime = 10000 /\ 2 * tk.GlobalScale = ScaleDen) =>
                          /\ Acc \in {0, 5000, 10000, 15000}
                          /\ T.PhaseElapsed = Acc
                          /\ tk.log = <<id>> <=> Acc = 15000

\* The fourth 1 s frame at factor 1/2 of a 2 s one-shot timer under the global
\* dilation: it has fired.
C16_Witness ==
    /\ TickDone
    /\ 1 \in DOMAIN tk.pre
    /\ tk.pre[1].DilationMode = GlobalTimeDilation
    /\ ~tk.pre[1].bLoop
    /\ tk.pre[1].Duration = 20000
    /\ ~tk.preHist[1].gPaused
    /\ tk.preHist[1].gAcc = 15000
    /\ tk.DeltaTime = 10000
    /\ 2 * tk.GlobalScale = ScaleDen
    /\ tk.log = <<1>>

\* B is under the dilation of an actor and A undilated, and they agree on
\* everything else they were created with.
SameButActorMode(A, B) ==
    /\ A.DilationMode = IgnoreTimeDilation
    /\ B.DilationMode = ActorTimeDilation
    /\ A.Duration = B.Duration
    /\ A.InitialDelay = B.InitialDelay
    /\ A.bLoop = B.bLoop
    /\ A.bAffectedByGamePause = B.bAffectedByGamePause
    /\ A.bNextTick = B.bNextTick

\* A and B are in the same phase with the same elapsed time, paused or not
\* alike.
SamePhase(A, B) ==
    A.Phase = B.Phase /\ A.PhaseElapsed = B.PhaseElapsed /\ A.bPaused = B.bPaused

\* C17. Actor-dilation fallback. Two timers created with the same arguments
\* but the dilation mode, one undilated and one under the dilation of an
\* actor, start in the same phase with the same elapsed time; and every Tick
\* call that finds them so, the actor being absent or dead, fires both or
\* neither and leaves them in the same phase with the same elapsed time. The
\* delta either gets does not depend on the global dilation factor.
C17_ActorFallback ==
    /\ \A a \in Pair.args, b \in Pair.args :
           (/\ a.DilationMode = IgnoreTimeDilation /\ b.DilationMode = ActorTimeDilation
            /\ [a EXCEPT !.DilationMode = b.DilationMode, !.DilationActor = b.DilationActor] = b) =>
               /\ SameButActorMode(NewTimerData(1, a, 0), NewTimerData(2, b, 0))
               /\ SamePhase(NewTimerData(1, a, 0), NewTimerData(2, b, 0))
    /\ TickDone =>
           \A i \in DOMAIN tk.pre, j \in DOMAIN tk.pre :
               LET A == tk.pre[i]
                   B == tk.pre[j]
               IN (/\ SameButActorMode(A, B) /\ SamePhase(A, B)
                   /\ B.DilationActor = nullptr \/ ~tk.ActorValid) =>
                      /\ \A g \in Pair.gscales, T \in {A, B} :
                             GetEffectiveDelta(T, tk.DeltaTime, [TickEnv EXCEPT !.GlobalScale = g])
                                 = tk.DeltaTime
                      /\ i \in Range(tk.log) <=> j \in Range(tk.log)
                      /\ IsTimerValid(i) <=> IsTimerValid(j)
                      /\ IsTimerValid(i) =>
                             /\ SameButActorMode(Timers[i], Timers[j])
                             /\ SamePhase(Timers[i], Timers[j])
                             /\ Timers[i].PhaseElapsed \in {0, A.PhaseElapsed + tk.DeltaTime}

\* A Tick has fired an undilated looping timer and its twin under the
\* dilation of an actor that has died, both at once.
C17_Witness ==
    /\ TickDone
    /\ DOMAIN tk.pre = {1, 2}
    /\ SameButActorMode(tk.pre[1], tk.pre[2])
    /\ SamePhase(tk.pre[1], tk.pre[2])
    /\ tk.pre[2].DilationActor = SomeActor
    /\ ~tk.ActorValid
    /\ tk.pre[1].bLoop
    /\ Range(tk.log) = {1, 2}
    /\ tk.preHist[1].gFires = 1

\* The step is a Tick call made without a world.
NoWorldTick == pc = "idle" /\ pc' = "ret" /\ ~tk'.World

\* C18. No-world tick. A Tick call made without a world changes neither the
\* store, the id counter nor the buffers of Tick, and executes no delegate,
\* up to and including its return; the history of every timer is as it was,
\* so the next Tick call made with a world advances, transitions and fires
\* every record that is not frozen by the rules, as every Tick call made with
\* a world does.
C18_NoWorldTick ==
    /\ [][ /\ NoWorldTick =>
                  /\ StoreState' = StoreState
                  /\ hist' = hist
                  /\ TaskQueue' = TaskQueue
                  /\ tk'.log = <<>>
                  /\ tk'.pre = Timers
           /\ (pc = "ret" /\ ~tk.World) =>
                  /\ pc' = "idle"
                  /\ StoreState' = StoreState
                  /\ hist' = hist ]_vars
    /\ [](TickDone =>
            \A id \in DOMAIN tk.pre :
                ~Gated(tk.pre[id], tk.bPausedNow) => ProcessedNormally(id))

\* A Tick call without a world has returned with a 2 s timer at 1.5 s in the
\* store, as it was.
C18_Witness ==
    /\ pc = "ret"
    /\ ~tk.World
    /\ tk.active
    /\ 1 \in DOMAIN Timers
    /\ Timers[1].Duration = 20000
    /\ Timers[1].PhaseElapsed = 15000
    /\ Timers = tk.pre

\* The place of x in the sequence s.
Pos(s, x) == CHOOSE i \in DOMAIN s : s[i] = x

\* The elements of log are elements of ref, each once, and come in log in the
\* order they come in ref.
InOrderOf(log, ref) ==
    /\ Range(log) \subseteq Range(ref)
    /\ \A a, b \in DOMAIN log : a < b => Pos(ref, log[a]) < Pos(ref, log[b])

\* C19 as stated. Firing order within a tick: the delegates a Tick executes
\* are executed in the order in which their records come in the snapshot of
\* that Tick, next-tick and regular timers alike.
C19_SnapshotOrder == TickDone => InOrderOf(tk.log, tk.order)

\* C19. Firing order within a tick. The delegates a Tick executes are those of
\* records it marked due; the next-tick records come first, in the order of
\* the snapshot, and the regular records after them, in the order of the
\* snapshot as well.
C19_NextTickFirst ==
    TickDone =>
        LET IsNextTick(id) == tk.pre[id].bNextTick
            Regular(id) == ~tk.pre[id].bNextTick
        IN InOrderOf(tk.log, SelectSeq(tk.order, IsNextTick) \o SelectSeq(tk.order, Regular))

\* A regular timer comes before a next-tick timer in the snapshot, both are
\* due, and the next-tick timer's delegate was executed first.
C19_Witness ==
    /\ TickDone
    /\ tk.order = <<1, 2>>
    /\ ~tk.pre[1].bNextTick
    /\ tk.pre[2].bNextTick
    /\ tk.log = <<2, 1>>

-----------------------------------------------------------------------------
\* The threshold of the phase a record is in: InitialDelay while it serves its
\* initial delay, Duration once it runs.
PhaseThreshold(T) == IF T.Phase = PhaseInitialDelay THEN T.InitialDelay ELSE T.Duration

\* The last step was a time-left query (of the subsystem, or of a handle whose
\* owner is alive) about the live record Id.
AskedTimeLeft(Id) ==
    /\ Result' # Result
    /\ Result'.Id = Id
    /\ \/ Result'.query = "GetTimerTimeLeft"
       \/ Result'.query = "GetTimeLeft" /\ Result'.Owner
    /\ Id \in DOMAIN Timers

\* C21. Time left. A time-left query about a live record returns
\* max(0, InitialDelay - PhaseElapsed) while the record is in phase
\* InitialDelay and max(0, Duration - PhaseElapsed) while it is Running; and
\* in every reachable state the time left of every live record is at least 0
\* and at most the threshold of its phase.
C21_TimeLeft ==
    /\ [][ \A Id \in DOMAIN Timers :
             AskedTimeLeft(Id) =>
                 LET T == Timers[Id] IN
                 Result'.f = IF T.Phase = PhaseInitialDelay
                             THEN Max(0, T.InitialDelay - T.PhaseElapsed)
                             ELSE Max(0, T.Duration - T.PhaseElapsed) ]_vars
    /\ [](\A Id \in DOMAIN Timers :
             /\ 0 <= GetTimerTimeLeft(Id)
             /\ GetTimerTimeLeft(Id) <= PhaseThreshold(Timers[Id]))

\* A 1 s timer with an initial delay of 2 s, fed 1 s: still in its delay, and
\* the query has answered 1 s.
C21_Witness ==
    /\ Result.query = "GetTimerTimeLeft"
    /\ Result.Id \in DOMAIN Timers
    /\ Timers[Result.Id].Phase = PhaseInitialDelay
    /\ Timers[Result.Id].InitialDelay = 20000
    /\ Timers[Result.Id].PhaseElapsed = 10000
    /\ Timers[Result.Id].Duration = 10000
    /\ Result.f = 10000

-----------------------------------------------------------------------------
\* The last step was a call of FEnhancedTimerHandle::IsValid.
AskedIsValid == Result' # Result /\ Result'.query = "IsValid"

\* The last step was a creation call made on the game thread, which inserted
\* the record itself and returned its handle.
CreatesInline == Creates /\ lastThread' = GameThread /\ TaskQueue' = TaskQueue

\* The handle the last creation call returned is valid (its owner is this
\* subsystem, alive).
ReturnedValid == Handle_IsValid(Returned, TRUE)

\* The step removes the record of id from the store.
Removes(id) == id \in DOMAIN Timers /\ id \notin DOMAIN Timers'

\* C22. Handle validity. FEnhancedTimerHandle::IsValid answers true exactly
\* when the handle's id is not 0, its owner is alive and the id is a key of
\* the owner's store at the moment of the call, so a default-constructed
\* handle (id 0, no owner) is never valid; the handle a game-thread creation
\* returns is valid on return and stays valid over every step that does not
\* remove its record.
C22_HandleValidity ==
    /\ [][ AskedIsValid =>
             /\ Result'.b = (Result'.Id # 0 /\ Result'.Owner /\ Result'.Id \in DOMAIN Timers)
             /\ (Result'.Id = 0 /\ ~Result'.Owner) => ~Result'.b ]_vars
    /\ [][ CreatesInline =>
             /\ Returned' = AllocateId.Out
             /\ Returned' # 0
             /\ ReturnedValid' ]_vars
    /\ [][ (Returned # 0 /\ Returned' = Returned /\ ReturnedValid /\ ~Removes(Returned))
               => ReturnedValid' ]_vars

\* The handle of a timer that has lived through a frame is asked and answers
\* true.
C22_Witness ==
    /\ Result.query = "IsValid"
    /\ Result.Owner
    /\ Result.b
    /\ Result.Id = Returned
    /\ Returned \in DOMAIN Timers
    /\ hist[Returned].gAcc > 0

-----------------------------------------------------------------------------
\* The record with its pause flag set to b and nothing else changed.
WithPaused(T, b) == [T EXCEPT !.bPaused = b]

\* C23. Bulk pause. A PauseAllTimers (UnpauseAllTimers) call on the game
\* thread leaves the same ids in the store; every record, the next-tick ones
\* included, has bPaused true (false) afterwards and is in every other field
\* (Phase, PhaseElapsed, Duration, InitialDelay, bLoop, bAffectedByGamePause,
\* DilationMode, DilationActor, bNextTick) what it was; the id counter and the
\* buffers of Tick are untouched.
C23_BulkPause ==
    [][ \A b \in BOOLEAN :
          (IF b THEN PauseAllTimers(GameThread) ELSE UnpauseAllTimers(GameThread)) =>
              /\ DOMAIN Timers' = DOMAIN Timers
              /\ \A id \in DOMAIN Timers :
                    /\ Timers'[id].bPaused = b
                    /\ Timers'[id] = WithPaused(Timers[id], b)
              /\ UNCHANGED <<NextId, FiredThisTick, ToRemove, ToUnpause, ReusableToFire>> ]_vars

\* A running timer with time on its clock and a next-tick timer, both paused:
\* where only the bulk calls pause, PauseAllTimers has acted on both.
C23_Witness ==
    /\ DOMAIN Timers = {1, 2}
    /\ \E i, j \in DOMAIN Timers :
          /\ Timers[i].bNextTick /\ Timers[i].bPaused
          /\ ~Timers[j].bNextTick /\ Timers[j].bPaused /\ Timers[j].PhaseElapsed = 5000

-----------------------------------------------------------------------------
\* C24. Locked in-place mutation. Every write to a record of the store is
\* made under the exclusive lock: while a query of another thread holds the
\* shared lock, no step changes the store.
C24_WritesUnderLock ==
    [][ MapLock = "read" => Timers' = Timers ]_vars

-----------------------------------------------------------------------------
\* C25. Delay generator. For a base delay and a variation that are not
\* negative, every draw in [-variation, variation] gives an initial delay
\* between the base delay and the base delay plus the variation, a draw that
\* is not positive giving the base delay itself; and the record a creation
\* call (SetEnhancedTimer or SetEnhancedTimer_BP) inserts has such an initial
\* delay, PhaseElapsed 0, and phase InitialDelay exactly when its initial
\* delay is positive, Running otherwise.
C25_DelayGenerator ==
    /\ [](\A a \in Dly.args :
            \A Rand \in (0 - a.DelayToStartCountingDownVariation)
                            .. a.DelayToStartCountingDownVariation :
               /\ a.DelayToStartCountingDown <= InitialDelayOf(a, Rand)
               /\ InitialDelayOf(a, Rand)
                     <= a.DelayToStartCountingDown + a.DelayToStartCountingDownVariation
               /\ Rand <= 0 => InitialDelayOf(a, Rand) = a.DelayToStartCountingDown)
    /\ [][ \A a \in Dly.args :
             (SetEnhancedTimer(GameThread, a) \/ SetEnhancedTimer_BP(GameThread, a)) =>
                 LET T == Timers'[AllocateId.Out] IN
                 /\ a.DelayToStartCountingDown <= T.InitialDelay
                 /\ T.InitialDelay
                       <= a.DelayToStartCountingDown + a.DelayToStartCountingDownVariation
                 /\ T.Phase = (IF T.InitialDelay > 0 THEN PhaseInitialDelay ELSE PhaseRunning)
                 /\ T.PhaseElapsed = 0 ]_vars

\* A record just created with the base delay 0.5 s and a draw of 2 units out
\* of a variation of 3.
C25_Witness ==
    \E id \in DOMAIN Timers :
        /\ Timers[id].InitialDelay = 5002
        /\ Timers[id].Phase = PhaseInitialDelay
        /\ Timers[id].PhaseElapsed = 0
        /\ hist[id].gAcc = 0

-----------------------------------------------------------------------------
\* The step is the return of the delegate of a looping record that is still
\* in the store: ExecuteFired re-arms it.
ReArms(id) == DelegateReturn /\ cur = id /\ FindMutable(id) /\ Timers[id].bLoop

\* C26. One-way phase machine. Over every step a record lives through, its
\* phase either stays what it was or goes from InitialDelay to Running: a
\* Running record stays Running. The re-arm of a looping record after its
\* delegate returned leaves it in the store, Running, with PhaseElapsed 0 and
\* bNextTick false. So the initial delay is served at most once: a record in
\* phase InitialDelay has never fired.
C26_PhaseOneWay ==
    /\ [][ \A id \in DOMAIN Timers \cap DOMAIN Timers' :
             /\ Timers'[id].Phase # Timers[id].Phase =>
                   Timers[id].Phase = PhaseInitialDelay /\ Timers'[id].Phase = PhaseRunning
             /\ Timers[id].Phase = PhaseRunning => Timers'[id].Phase = PhaseRunning
             /\ ReArms(id) =>
                   /\ Timers'[id].Phase = PhaseRunning
                   /\ Timers'[id].PhaseElapsed = 0
                   /\ ~Timers'[id].bNextTick ]_vars
    /\ [][ \A id \in DOMAIN Timers : ReArms(id) => id \in DOMAIN Timers' ]_vars
    /\ [](\A id \in DOMAIN Timers :
             Timers[id].Phase = PhaseInitialDelay => hist[id].gFires = 0)

\* A looping timer created with an initial delay, after its first fire and
\* re-arm: Running from 0, between frames.
C26_Witness ==
    /\ pc = "idle"
    /\ \E id \in DOMAIN Timers :
          /\ Timers[id].bLoop
          /\ Timers[id].InitialDelay > 0
          /\ hist[id].gFires = 1
          /\ Timers[id].Phase = PhaseRunning
          /\ Timers[id].PhaseElapsed = 0

-----------------------------------------------------------------------------
\* The shape of a record of SetEnhancedTimerExecutedInNextTick.
NextTickShape(T) ==
    /\ T.Duration = 0
    /\ T.InitialDelay = 0
    /\ T.Phase = PhaseRunning
    /\ ~T.bLoop
    /\ T.bAffectedByGamePause
    /\ T.DilationMode = IgnoreTimeDilation

\* C27. Next-tick record shape. In every reachable state every record of the
\* store with bNextTick set has Duration 0, InitialDelay 0, phase Running,
\* bLoop false, bAffectedByGamePause true and dilation mode Ignore; and no
\* step sets bNextTick on a record that lives through it, so a record of
\* SetEnhancedTimer, created with the flag false, never has it.
C27_NextTickShape ==
    /\ [](\A id \in DOMAIN Timers : Timers[id].bNextTick => NextTickShape(Timers[id]))
    /\ [][ \A id \in DOMAIN Timers \cap DOMAIN Timers' :
             ~Timers[id].bNextTick => ~Timers'[id].bNextTick ]_vars
    /\ [][ \A a \in Main.args :
             SetEnhancedTimer(GameThread, a) => ~Timers'[AllocateId.Out].bNextTick ]_vars

\* Between frames, a next-tick record that was paused, beside a timer of
\* SetEnhancedTimer with time on its clock.
C27_Witness ==
    /\ pc = "idle"
    /\ \E i, j \in DOMAIN Timers :
          /\ Timers[i].bNextTick /\ Timers[i].bPaused /\ hist[i].gPaused
          /\ ~Timers[j].bNextTick /\ Timers[j].PhaseElapsed > 0

-----------------------------------------------------------------------------
\* The handle's id is 0 or not a key of the store.
InvalidReference(Id) == Id = 0 \/ Id \notin DOMAIN Timers

\* C28. Mutators on an invalid reference. InvalidateTimer, PauseTimer and
\* UnpauseTimer called on the game thread with a handle whose id is 0 or not
\* in the store leave the store as it is, keys and fields, and so the id
\* counter and the buffers of Tick. InvalidateTimer on any id leaves that id
\* absent and every other record as it was: a second InvalidateTimer on the
\* same id finds an invalid reference and changes nothing, and no call
\* removes another timer.
C28_InvalidReferenceNoOp ==
    [][ \A Id \in 0 .. MaxCreate + 1 :
          /\ ( /\ InvalidReference(Id)
               /\ \/ InvalidateTimer(GameThread, Id)
                  \/ PauseTimer(GameThread, Id)
                  \/ UnpauseTimer(GameThread, Id) )
                => UNCHANGED StoreState
          /\ InvalidateTimer(GameThread, Id) =>
                /\ Id \notin DOMAIN Timers'
                /\ DOMAIN Timers' = DOMAIN Timers \ {Id}
                /\ \A j \in DOMAIN Timers' : Timers'[j] = Timers[j] ]_vars

\* Timer 1 has been invalidated; timer 2, created before or after, is in the
\* store with time on its clock.
C28_Witness ==
    /\ Gone(1)
    /\ NextId = 3
    /\ DOMAIN Timers = {2}
    /\ Timers[2].PhaseElapsed = 5000
    /\ ~Timers[2].bPaused

-----------------------------------------------------------------------------
\* PauseTimer (b) or UnpauseTimer (~b) called on the game thread.
PauseCall(Id, b) == IF b THEN PauseTimer(GameThread, Id) ELSE UnpauseTimer(GameThread, Id)

\* The Tick observed marked id due.
Marked(id) == id \in Range(tk.order)

\* C29. Pause round trip. PauseTimer and UnpauseTimer on the game thread
\* change bPaused of the addressed record and nothing else in the store, so
\* each is idempotent and, on a record that was not paused, PauseTimer
\* followed by UnpauseTimer gives back the record as it was. The time a
\* timer needs is kept through a pause: a Tick entered with the record paused
\* leaves its phase and PhaseElapsed alone and does not fire it; PhaseElapsed
\* is at every Tick the effective time of the frames in which the record was
\* not frozen, counted from its last reset; and a running record that is not
\* frozen is marked due in a Tick exactly when PhaseElapsed plus the delta of
\* the Tick reaches Duration, and fired then unless a delegate of the same
\* Tick removed it. So a timer paused with the time M missing and unpaused
\* any number of Ticks later is due when it has been fed M more.
C29_PauseRoundTrip ==
    /\ [][ \A Id \in DOMAIN Timers, b \in BOOLEAN :
             PauseCall(Id, b) =>
                 /\ Timers' = [Timers EXCEPT ![Id] = WithPaused(Timers[Id], b)]
                 /\ Timers[Id].bPaused = b => Timers' = Timers
                 /\ UNCHANGED <<NextId, FiredThisTick, ToRemove, ToUnpause, ReusableToFire>> ]_vars
    /\ [](\A id \in DOMAIN Timers :
             ~Timers[id].bPaused =>
                 WithPaused(WithPaused(Timers[id], TRUE), FALSE) = Timers[id])
    /\ [](TickDone =>
             \A id \in DOMAIN tk.pre :
                 LET T == tk.pre[id]
                     H == tk.preHist[id]
                 IN /\ ~T.bNextTick => T.PhaseElapsed = H.gAcc - H.gMark
                    /\ T.bPaused =>
                          /\ ~Marked(id) /\ id \notin Range(tk.log)
                          /\ IsTimerValid(id) =>
                                /\ Timers[id].PhaseElapsed = T.PhaseElapsed
                                /\ Timers[id].Phase = T.Phase
                    /\ (~Gated(T, tk.bPausedNow) /\ ~T.bNextTick /\ T.Phase = PhaseRunning) =>
                          /\ Marked(id) <=> Reaches(T.PhaseElapsed + TickEff(id), T.Duration)
                          /\ id \in Range(tk.log) => Marked(id)
                          /\ (Marked(id) /\ id \notin Range(tk.log)) => ~IsTimerValid(id))

\* A 1 s timer fed 0.5 s, then paused through at least one frame, then
\* unpaused: the Tick that feeds it the missing 0.5 s fires it.
C29_Witness ==
    /\ TickDone
    /\ \E id \in DOMAIN tk.pre :
          /\ tk.pre[id].Duration = 10000
          /\ ~tk.pre[id].bPaused
          /\ tk.preHist[id].gPaused
          /\ tk.pre[id].PhaseElapsed = 5000
          /\ tk.preHist[id].gFires = 0
          /\ tk.DeltaTime = 5000
          /\ id \in Range(tk.log)

-----------------------------------------------------------------------------
\* C30. A paused timer is never fired. In every step in which ExecuteFired
\* invokes the delegate of a record, that record's bPaused is false: a timer
\* marked due by the mutable pass and then paused (PauseTimer, PauseAllTimers)
\* by a delegate executed earlier in the same fire pass is not fired in that
\* Tick.
C30_PausedNeverFired ==
    [][ \A id \in DOMAIN Timers' : Invoked(id) => ~Timers'[id].bPaused ]_vars

-----------------------------------------------------------------------------
\* No element comes twice in the sequence s.
NoRepeat(s) == \A i, j \in DOMAIN s : i # j => s[i] # s[j]

\* C31. At most one fire per timer per tick. The ids a Tick has marked due
\* (those whose delegate it has executed so far, followed by those its fire
\* pass is still to visit) are all different, so no id is marked twice and no
\* delegate is executed twice in one Tick; and a record that lives through
\* the Tick has had its delegate executed at most once more than at the
\* Tick's entry, whatever kinds of timers the store holds and whatever the
\* delegates called.
C31_OneFirePerTick ==
    /\ NoRepeat(FiredThisTick \o tk.log \o ReusableToFire)
    /\ \A id \in DOMAIN hist \cap DOMAIN tk.preHist :
           hist[id].gFires <= tk.preHist[id].gFires + 1

\* A Tick fired a next-tick timer and a zero-duration loop, once each; the
\* loop is re-armed in the store and a delegate created a third timer during
\* the fire pass.
C31_Witness ==
    /\ TickDone
    /\ \E a, b \in DOMAIN tk.pre :
           /\ tk.pre[a].bNextTick
           /\ tk.pre[b].bLoop /\ tk.pre[b].Duration = 0 /\ ~tk.pre[b].bNextTick
           /\ tk.log = <<a, b>>
           /\ b \in DOMAIN Timers
           /\ hist[b].gFires = tk.preHist[b].gFires + 1
    /\ \E c \in DOMAIN Timers : c \notin DOMAIN tk.pre

-----------------------------------------------------------------------------
\* The records the delegates of the Tick in progress have created: in the
\* store, and not in it when the Tick was entered.
CreatedInTick == IF tk.active THEN DOMAIN Timers \ DOMAIN tk.pre ELSE {}

\* The record of id is what a creation call stored, but for its pause flag.
AsCreated(id) ==
    \/ WithPaused(Timers[id], FALSE) = NewNextTickData(id)
    \/ \E a \in Mix.args : WithPaused(Timers[id], FALSE) = NewTimerData(id, a, 0)

\* C32. Timers created inside a callback wait for the next tick. While a Tick
\* is in progress and when it has returned, a record created by one of its
\* delegates is as the creation call stored it (not advanced, whatever its
\* duration), has been fed no time, has not fired, and is neither in the list
\* of the fire pass nor queued for removal; the post-fire step and Cleanup do
\* not remove it. And a Tick entered with a next-tick record that is not
\* paused marks it due, and the record is gone when the Tick returns: its
\* delegate was executed, first of all if it comes first among those marked,
\* unless a delegate executed before it cancelled it. So a next-tick timer
\* created from a callback of one Tick is fired by the next.
C32_CreatedInCallbackWaits ==
    /\ [](\A id \in CreatedInTick :
             /\ AsCreated(id)
             /\ hist[id].gAcc = 0 /\ hist[id].gFires = 0
             /\ id \notin Range(FiredThisTick) \cup Range(tk.log)
                       \cup Range(ReusableToFire) \cup Range(ToRemove))
    /\ [][ DelegateReturn => \A id \in CreatedInTick : id \in DOMAIN Timers' ]_vars
    /\ [](TickDone =>
             \A id \in DOMAIN tk.pre :
                 (tk.pre[id].bNextTick /\ ~tk.pre[id].bPaused) =>
                     /\ id \in Range(tk.order)
                     /\ id \notin DOMAIN Timers
                     /\ tk.order[1] = id => tk.log # <<>> /\ tk.log[1] = id
                     /\ tk.preHist[id].gFires = 0)

\* A next-tick timer created by a delegate of an earlier Tick has been fired
\* by this one, and its delegate created a zero-duration timer, which is in
\* the store, not fired.
C32_Witness ==
    /\ TickDone
    /\ \E id \in DOMAIN tk.pre :
           /\ tk.pre[id].bNextTick
           /\ tk.log = <<id>>
           /\ id \notin DOMAIN Timers
    /\ \E c \in CreatedInTick :
           ~Timers[c].bNextTick /\ Timers[c].Duration = 0 /\ Timers[c].Phase = PhaseRunning

-----------------------------------------------------------------------------
\* The next-tick records the pre-mark pass of the Tick in progress marked.
DueNextTick == { n \in DOMAIN tk.pre : PreMarked(tk.pre[n], tk.bPausedNow) }

\* C33. Next-tick timers fire first. In every Tick, once the delegate of a
\* regular timer has been executed, every next-tick record the Tick marked
\* has had its delegate executed, before that of the regular timer, or was
\* cancelled by a delegate executed before its turn and is skipped; the ids
\* the fire pass is still to visit are then regular ones. This holds whichever
\* of the timers was created first and however the store was iterated.
C33_NextTickBeforeRegular ==
    tk.active =>
        \A r \in Range(tk.log) :
            ~tk.pre[r].bNextTick =>
                \A n \in DueNextTick :
                    \/ n \in Range(tk.log) /\ Pos(tk.log, n) < Pos(tk.log, r)
                    \/ /\ n \notin Range(tk.log)
                       /\ n \notin Range(ReusableToFire)
                       /\ n \notin DOMAIN Timers

\* A zero-duration loop was created before a next-tick timer and came before
\* it in the snapshot; the Tick executed the next-tick timer's delegate first
\* and re-armed the loop after executing its delegate.
C33_Witness ==
    /\ TickDone
    /\ DOMAIN tk.pre = {1, 2}
    /\ tk.pre[1].bLoop /\ tk.pre[1].Duration = 0 /\ ~tk.pre[1].bNextTick
    /\ tk.pre[2].bNextTick
    /\ tk.order = <<1, 2>>
    /\ tk.log = <<2, 1>>
    /\ DOMAIN Timers = {1}

-----------------------------------------------------------------------------
\* C34. No overdue record survives a tick. Whenever Tick has returned (and
\* until the next one starts), every record of the store has PhaseElapsed 0
\* or strictly below the threshold of its phase, InitialDelay in the initial
\* delay and Duration when running, whatever the deltas, the dilation
\* factors, the host pause and the calls made by the delegates were; and
\* PhaseElapsed is never negative, inside a Tick either.
C34_NoOverdueSurvives ==
    /\ \A id \in DOMAIN Timers : Timers[id].PhaseElapsed >= 0
    /\ BetweenTicks =>
           \A id \in DOMAIN Timers :
               \/ Timers[id].PhaseElapsed = 0
               \/ Timers[id].PhaseElapsed < PhaseThreshold(Timers[id])

\* A Tick took a running loop of 2 s beyond its Duration, executed its
\* delegate and has returned: the record is in the store with PhaseElapsed 0.
C34_Witness ==
    /\ TickDone
    /\ \E id \in DOMAIN tk.pre \cap DOMAIN Timers :
           /\ tk.pre[id].bLoop
           /\ tk.pre[id].Phase = PhaseRunning
           /\ tk.pre[id].Duration = 20000
           /\ tk.pre[id].PhaseElapsed + TickEff(id) > tk.pre[id].Duration
           /\ tk.log = <<id>>
           /\ Timers[id].PhaseElapsed = 0

-----------------------------------------------------------------------------
\* The records created by the deferred task of an off-thread SetEnhancedTimer
\* call: where the game thread creates next-tick timers only, the regular
\* records of the store.
Orphans == { id \in DOMAIN Timers : ~Timers[id].bNextTick }

\* The game thread runs the deferred creation at the head of the queue.
RunsDeferredCreate == RunsDeferred /\ pc = "idle" /\ IsCreate(Head(TaskQueue))

\* An InvalidateAllTimers call takes effect: made on the game thread, or
\* deferred and now run by it.
ClearsAll ==
    \/ InvalidateAllTimers(GameThread)
    \/ RunsDeferred /\ Head(TaskQueue).op = "InvalidateAllTimers"

\* C35. Orphan timer from off-thread synchronous creation. A SetEnhancedTimer
\* call made off the game thread returns the invalid handle and changes
\* nothing in the store; when the game thread runs the deferred task, the
\* store gets a new record, the one a call on the game thread would build, and
\* no handle is returned to anybody. From then on no handle a caller was
\* given, and no cancellation waiting in the queue, has the record's id. The
\* record is advanced and fired by Tick as any record is: in a Tick in which
\* its time reaches Duration its delegate is executed (unless a delegate
\* executed before cleared the store), then it is re-armed if it loops and
\* removed if not; otherwise it is kept, advanced by the frame's delta. And
\* the only steps that take it out of the store are a Tick that fired it
\* without bLoop and an InvalidateAllTimers call taking effect.
C35_OrphanTimer ==
    /\ [][ QueuesCreate => Returned' = 0 /\ Timers' = Timers ]_vars
    /\ [][ RunsDeferredCreate =>
               /\ NextId \notin DOMAIN Timers
               /\ DOMAIN Timers' = DOMAIN Timers \cup {NextId}
               /\ Timers'[NextId] = NewTimerData(NextId, Head(TaskQueue).arg, 0)
               /\ Returned' = Returned
               /\ Returned' # NextId ]_vars
    /\ [](\A id \in Orphans :
             /\ Returned # id
             /\ \A i \in DOMAIN TaskQueue :
                    TaskQueue[i].op = "InvalidateTimer" => TaskQueue[i].Id # id)
    /\ [](TickDone =>
             \A id \in DOMAIN tk.pre :
                 ~tk.pre[id].bNextTick =>
                     LET T == tk.pre[id]
                         Adv == T.PhaseElapsed + TickEff(id)
                     IN IF Reaches(Adv, T.Duration)
                        THEN /\ id \in Range(tk.log) \/ id \notin DOMAIN Timers
                             /\ id \in DOMAIN Timers =>
                                    /\ T.bLoop /\ id \in Range(tk.log)
                                    /\ Timers[id] = [T EXCEPT !.PhaseElapsed = 0]
                        ELSE /\ id \notin Range(tk.log)
                             /\ id \in DOMAIN Timers =>
                                    Timers[id] = [T EXCEPT !.PhaseElapsed = Adv])
    /\ [][ \A id \in Orphans :
               id \notin DOMAIN Timers' =>
                   \/ ClearsAll /\ DOMAIN Timers' = {}
                   \/ /\ pc # "ret" /\ pc' = "ret"
                      /\ id \in Range(tk'.log)
                      /\ ~Timers[id].bLoop ]_vars

\* A looping timer created by the deferred task of a worker's call has fired
\* twice and is in the store; the handle the callers hold is that of a
\* next-tick timer created on the game thread, which is no longer there.
C35_Witness ==
    /\ TickDone
    /\ \E id \in Orphans :
           /\ Timers[id].bLoop
           /\ id \in Range(tk.log)
           /\ hist[id].gFires = 2
    /\ Returned # 0
    /\ Returned < NextId
    /\ Returned \notin DOMAIN Timers

-----------------------------------------------------------------------------
\* C36. Pending buffers do not leak across ticks. Whenever no Tick is in
\* progress (where a Tick is entered, and after one has returned, early for
\* lack of a World or not, whatever its delegates called) FiredThisTick and
\* ToRemove are empty and ExecuteFired's buffer has nothing left to visit.
\* Inside a Tick, the delegates executed and the ids still to visit are ids
\* that Tick marked, and the ids queued for removal are ids whose delegate it
\* executed; the records the return of a Tick takes out of the store are
\* records that Tick fired.
C36_BuffersDoNotLeak ==
    /\ [](BetweenTicks =>
             FiredThisTick = <<>> /\ ToRemove = <<>> /\ ReusableToFire = <<>>)
    /\ [](/\ FiredThisTick = <<>>
          /\ Range(tk.log) \cup Range(ReusableToFire) \subseteq Range(tk.order)
          /\ Range(ToRemove) \subseteq Range(tk.log))
    /\ [][ (pc # "ret" /\ pc' = "ret") =>
               DOMAIN Timers \ DOMAIN Timers' \subseteq Range(tk'.log) ]_vars

\* A Tick marked two timers; the delegate of the first cleared the store, so
\* the second was skipped; the Tick has returned with its buffers empty.
C36_Witness ==
    /\ TickDone
    /\ Len(tk.order) = 2
    /\ Len(tk.log) = 1
    /\ DOMAIN Timers = {}
    /\ FiredThisTick = <<>> /\ ToRemove = <<>> /\ ReusableToFire = <<>>

====
